---- MODULE Spec2Model ----
(***************************************************************************)
(* A model of redux-rs: the actor-style Store (src/src/store/mod.rs), its  *)
(* StateWorker and Mailbox/Address (src/src/store/worker/), and the        *)
(* middleware chain built by StoreWithMiddleware (src/src/middleware.rs,   *)
(* src/src/middlewares/).                                                  *)
(*                                                                         *)
(* Tasks (tokio tasks) call dispatch / select / subscribe on the outermost *)
(* store.  A call walks down the middleware layers, is enqueued in the     *)
(* worker's mailbox, is executed by the worker, is answered on a one-shot  *)
(* channel and walks back up through the layers.  `calls`, `wlog` and      *)
(* `inits` are history variables: what each call did and saw, and what the *)
(* worker did, in the order it did it.                                     *)
(*                                                                         *)
(* The synchronous Store of the first generation (src/src/store.rs), with  *)
(* its function middlewares and combine_reducers! (src/src/reducer.rs), is *)
(* modelled beside it in variables of its own; `trace` is its history.     *)
(***************************************************************************)
EXTENDS Integers, Sequences, FiniteSets, TLC

VARIABLES
    built,        \* the constructor called: "new" or "new_with_state"
    alive,        \* TRUE until the Store, and with it every Address, is dropped
    ended,        \* <<>> while the worker task runs, then <<what it left behind>>
    work,         \* <<>> while run awaits recv, else <<the item execute is at, and where>>
    reducer,      \* which root reducer the store was constructed with
    initial,      \* the state the store was constructed with
    state,        \* StateWorker.state : Option<State>, <<>> is None, <<v>> is Some(v)
    subscribers,  \* StateWorker.subscribers : Vec<Box<dyn Subscriber>>
    mailbox,      \* the unbounded mpsc channel of the Mailbox
    oneshot,      \* per task, the one-shot completion channel of its call in flight
    tasks,        \* per task, where it is in its store call
    chain,        \* the middleware layers, chain[1] wrapped first (innermost)
    wrapping,     \* <<>>, or <<kind>> while StoreWithMiddleware::new runs
    logs,         \* the Vec the test LoggerMiddleware of middleware.rs logs to
    calls,        \* history: one record per store call, calls[id] is call id
    wlog,         \* history: what the worker did, in order
    inits,        \* history: the init hooks called, in order, and the calls begun by then
    store_reducer,  \* store.rs Store.reducer: the reducers combine_reducers! chains
    store_state,    \* store.rs Store.state
    middleware,     \* store.rs Store.middleware : Vec<Middleware>
    subscriptions,  \* store.rs Store.subscriptions : Vec<Subscription>
    trace           \* history: one record per dispatch on the synchronous Store

\* the life of the store and of its worker task
life == <<built, alive, ended, work>>

\* the synchronous Store
sync == <<store_reducer, store_state, middleware, subscriptions, trace>>

vars == <<life, sync, reducer, initial, state, subscribers, mailbox, oneshot,
          tasks, chain, wrapping, logs, calls, wlog, inits>>

----------------------------------------------------------------------------
(* Bounds of the model *)

NumCallers == 2
\* calls the callers make on the plain store, and on a store with middlewares
MaxCalls == 3
MaxMwCalls == 2
\* and on a store with ThunkMiddleware
MaxThunkCalls == 3
\* the thunks dispatched
MaxThunks == 2
MaxLayers == 2
\* the calls made on a store that is dropped, or whose worker ends
MaxLifeCalls == 3
\* calls the callers of a Store wrapped in forwarding middlewares make
MaxFwdCalls == 3
\* the inner dispatches the user's middlewares make for one outer dispatch
MaxForwards == 2
\* the synchronous Store: reducers combined, middlewares added, subscriptions,
\* dispatches
MaxReducers == 2
MaxMiddleware == 2
MaxSubscriptions == 1
MaxDispatches == 2
\* the synchronous Store with listeners: subscriptions and dispatches
MaxListeners == 3
MaxListenerDispatches == 3
\* the calls made on the store whose worker is taken step by step
MaxStepCalls == 3
\* the calls made on the store whose tasks are scheduled fairly
MaxLiveCalls == 3
\* the dispatches made on the counter store by concurrent callers
MaxCountCalls == 4

\* the task that builds the store: the body of a #[tokio::test]
Main == 0
Callers == 1..NumCallers
\* the callers of a store wrapped in middlewares: two, whose dispatches
\* interleave in every layer
MwCallers == {1, 2}
\* the caller of a store wrapped in ThunkMiddleware: one, and the tasks spawned
\* for its thunks run beside it
ThunkCallers == {1}
\* the task spawned for the thunk dispatched by call id is task NumCallers + id;
\* a call is a caller's, an init hook's or a thunk's
Thunks == (NumCallers + 1)..(NumCallers + MaxLayers + 2 * MaxThunkCalls)
Tasks == {Main} \cup Callers \cup Thunks

----------------------------------------------------------------------------
(* Reducers, selectors: the user-supplied pure functions of the tests *)

\* counter_reducer of store/mod.rs, log_reducer of middleware.rs,
\* user_reducer of middlewares/thunk.rs
reduce(kind, s, a) ==
    CASE kind = "counter" -> (IF a = "Increment" THEN s + 1 ELSE s - 1)
      [] kind = "log"     -> Append(s, a)
      [] kind = "user"    -> a

ActionsOf(kind) ==
    CASE kind = "counter" -> {"Increment", "Decrement"}
      [] kind = "log"     -> {"Log 1", "Log 2"}
      [] kind = "user"    -> {<<"John", "Jane">>}

\* Default::default(): Counter { value: 42 }, LogStore and UserState with an
\* empty Vec
DefaultState(kind) ==
    CASE kind = "counter" -> 42
      [] kind = "log"     -> <<>>
      [] kind = "user"    -> <<>>

\* the states handed to new_with_state
SuppliedStates(kind) ==
    CASE kind = "counter" -> {0}
      [] kind = "log"     -> {}
      [] kind = "user"    -> {}

\* Store::new: Self::new_with_state(root_reducer, Default::default())
\* Store::new_with_state(root_reducer, state): the state given
InitialStates(ctor, kind) ==
    IF ctor = "new" THEN {DefaultState(kind)} ELSE SuppliedStates(kind)

\* a StateWorker::new that starts from the default state whatever it is given
WorkerNewDefault(kind, s0) == <<DefaultState(kind)>>

\* StateWorker::new(root_reducer, state): state: Some(state)
WorkerNew(kind, s0) == <<s0>>

\* |state: &Counter| state.value, |state: &UserState| state.users.clone(), state_cloned
select(s) == s

RECURSIVE Fold(_, _, _)
\* reduce(...reduce(reduce(s, as[1]), as[2])..., as[n])
Fold(kind, s, as) ==
    IF as = <<>> THEN s
    ELSE Fold(kind, reduce(kind, s, Head(as)), Tail(as))

----------------------------------------------------------------------------
(* Messages, task records *)

Msg(kind, t, id, arg) == [kind |-> kind, t |-> t, id |-> id, arg |-> arg]

TaskRec(ph, op, id, lay, top, a) ==
    [ph |-> ph, op |-> op, id |-> id, lay |-> lay, top |-> top, a |-> a]
IdleTask == TaskRec("idle", "none", 0, 0, 0, "none")

\* the phase a task is in once its call has returned
AfterCall(t) == IF t \in Thunks THEN "done" ELSE "idle"

----------------------------------------------------------------------------
(* History *)

\* the calls that have returned
Returned == {id \in DOMAIN calls : calls[id].ret # <<>>}

\* a call as it begins: who calls what on which layer, and which calls had
\* returned by then; ret becomes <<result>> when it returns, hooks collects the
\* middleware hooks it runs
CallRec(t, op, top, x) ==
    [t |-> t, op |-> op, top |-> top, x |-> x, before |-> Returned,
     ret |-> <<>>, hooks |-> <<>>]

\* the id the next call gets
nextId == Len(calls) + 1

ReduceEv(id, a, x) == [ev |-> "reduce", id |-> id, a |-> a, x |-> x]
NotifyEv(id, sub, x) == [ev |-> "notify", id |-> id, sub |-> sub, x |-> x]
SelectEv(id, x) == [ev |-> "select", id |-> id, x |-> x]
SubscribeEv(id) == [ev |-> "subscribe", id |-> id]
ReplyEv(id) == [ev |-> "reply", id |-> id]

\* how many times the worker has reduced the action of call id
Reduced(id) == Cardinality({i \in DOMAIN wlog : wlog[i].ev = "reduce" /\ wlog[i].id = id})

\* a hook of layer k entered or left by call id, and how often the call's
\* action had been reduced by then
HookEv(h, id, k) == [h |-> h, k |-> k, n |-> Reduced(id)]

\* calls, with the new calls `pre` begun, the hook events hs run by call id, and
\* the call returned when ret is <<result>>
Record(pre, id, hs, ret) ==
    [(calls \o pre) EXCEPT ![id].hooks = @ \o hs,
                           ![id].ret = IF ret = <<>> THEN @ ELSE ret]

----------------------------------------------------------------------------
(* Address::send: the first half, up to the await of the one-shot receiver *)

\* the senders of the mailbox's channel: the Address in the Store, and the tx the
\* Mailbox, which the worker owns, keeps beside its rx
Senders == (IF alive THEN 1 ELSE 0) + (IF ended = <<>> THEN 1 ELSE 0)

\* Mailbox::recv, rx.recv().await: a message, end-of-stream once the queue is
\* empty and no sender is left, or not ready
Recv ==
    IF mailbox # <<>> THEN "Some"
    ELSE IF Senders = 0 THEN "None"
    ELSE "Pending"

\* a channel that takes messages though its receiver is gone
EnqueueAlways(msg) == Append(mailbox, msg)

\* let _ = self.tx.send(Box::new(message)): an error, ignored, once the receiver
\* is gone; the message and the completion sender in it are dropped
Enqueue(msg) == IF ended = <<>> THEN Append(mailbox, msg) ELSE mailbox

\* rx.await.unwrap() when the completion sender was dropped: the caller panics
Panicked(rec) == [rec EXCEPT !.ph = "panicked"]

\* let (tx, rx) = channel(); self.tx.send(Box::new(message)); then rx.await
Send(t, msg, rec, pre, hs) ==
    /\ mailbox' = Enqueue(msg)
    /\ oneshot' = [oneshot EXCEPT ![t] = <<>>]
    /\ tasks' = [tasks EXCEPT ![t] = IF ended = <<>> THEN rec ELSE Panicked(rec)]
    /\ calls' = Record(pre, msg.id, hs, <<>>)
    /\ UNCHANGED <<life, sync, reducer, initial, state, subscribers, chain, wrapping, logs,
                   wlog, inits>>

----------------------------------------------------------------------------
(* Walking up: what runs after a layer's inner.dispatch(..).await *)

\* a logger that logs nothing after its inner dispatch
NoExitCode(kind) == FALSE

\* the test LoggerMiddleware logs again after its inner dispatch, and a
\* middleware of the user may forward again or do anything else;
\* LoggerMiddleware, ThunkMiddleware and a forwarding middleware return as soon
\* as the inner dispatch has returned
HasExitCode(kind) == kind \in {"testlog", "user"}

\* the first layer from..top that still has code to run, top + 1 when none has
NextExit(from, top) ==
    IF \E j \in from..top : HasExitCode(chain[j])
    THEN CHOOSE j \in from..top :
            /\ HasExitCode(chain[j])
            /\ \A i \in from..(j - 1) : ~HasExitCode(chain[i])
    ELSE top + 1

\* The layers below `from` have returned.  The task goes on to the next layer
\* with code left, or returns from the call: its record, the hooks left on the
\* way, and the call's result if it returns.
ResumeRec(t, id, op, top, from, a) ==
    LET n == NextExit(from, top) IN
    IF n > top THEN TaskRec(AfterCall(t), "none", 0, 0, 0, "none")
    ELSE TaskRec("up", op, id, n, top, a)

ResumeHooks(id, from, top) ==
    [j \in 1..(NextExit(from, top) - from) |-> HookEv("exit", id, from + j - 1)]

ResumeRet(from, top, res) ==
    IF NextExit(from, top) > top THEN <<res>> ELSE <<>>

----------------------------------------------------------------------------
(* StoreApi::dispatch on layer k: Store::dispatch for k = 0, and for k > 0  *)
(* StoreWithMiddleware::dispatch, which runs the hook of chain[k]           *)

HasThunk(k) == \E j \in 1..k : chain[j] = "thunk"

\* what a caller of layer k may dispatch: the layer's outer action type
OuterActions(k) ==
    IF HasThunk(k)
    THEN [tag : {"Action", "Thunk"}, a : ActionsOf(reducer)]
    ELSE ActionsOf(reducer)

\* an inner action as the outer action type of layer k
Outer(k, a) == IF HasThunk(k) THEN [tag |-> "Action", a |-> a] ELSE a

\* a ThunkMiddleware that treats ActionOrThunk::Action as it treats a thunk
ForwardsSeedOnly(k, p) == chain[k] = "seed"

\* the hooks that do nothing but call inner.dispatch: a forwarding middleware,
\* and ThunkMiddleware given ActionOrThunk::Action
Forwards(k, p) ==
    \/ chain[k] = "seed"
    \/ chain[k] = "thunk" /\ p.tag = "Action"

\* the action such a hook hands to inner.dispatch
Forwarded(k, p) == IF chain[k] = "thunk" THEN p.a ELSE p

RECURSIVE Descend(_, _, _, _)
\* from layer k down through the hooks that only forward: the layer reached, the
\* action that reaches it and the hooks entered on the way
Descend(id, k, p, hs) ==
    IF k > 0 /\ Forwards(k, p)
    THEN Descend(id, k - 1, Forwarded(k, p), Append(hs, HookEv("enter", id, k)))
    ELSE [k |-> k, p |-> p, hs |-> hs]

\* tests::LoggerMiddleware::dispatch of middleware.rs, up to inner.dispatch
TestLogBefore(t, k, top, id, p, pre, hs) ==
    /\ logs' = Append(logs, <<k, "Before", p>>)
    /\ tasks' = [tasks EXCEPT ![t] = TaskRec("down", "dispatch", id, k - 1, top, p)]
    /\ calls' = Record(pre, id, Append(hs, HookEv("enter", id, k)), <<>>)
    /\ UNCHANGED <<life, sync, reducer, initial, state, subscribers, mailbox, oneshot,
                   chain, wrapping, wlog, inits>>

\* a ThunkMiddleware that runs the thunk's dispatch itself and awaits it
ThunkInline(t, k, top, id, p, pre, hs) ==
    Send(t, Msg("Dispatch", t, id, p.a),
         TaskRec("wait", "dispatch", id, 0, top, p.a), pre,
         Append(hs, HookEv("enter", id, k)))

\* a ThunkMiddleware that hands the thunk the store it is the outer layer of,
\* not its inner store
ThunkSpawnSelf(t, k, top, id, p, pre, hs) ==
    /\ Cardinality({u \in Thunks : tasks[u].ph # "unspawned"}) < MaxThunks
    /\ tasks' = [tasks EXCEPT
           ![t] = ResumeRec(t, id, "dispatch", top, k + 1, p),
           ![NumCallers + id] = TaskRec("spawned", "none", 0, k, k,
                                        [tag |-> "Action", a |-> p.a])]
    /\ calls' = Record(pre, id,
           hs \o <<HookEv("enter", id, k), HookEv("exit", id, k)>>
              \o ResumeHooks(id, k + 1, top),
           ResumeRet(k + 1, top, "unit"))
    /\ UNCHANGED <<life, sync, reducer, initial, state, subscribers, mailbox,
                   oneshot, chain, wrapping, logs, wlog, inits>>

\* ThunkMiddleware::dispatch given ActionOrThunk::Thunk:
\* tokio::spawn(thunk.execute(inner.to_owned())), and the hook returns
ThunkSpawn(t, k, top, id, p, pre, hs) ==
    /\ Cardinality({u \in Thunks : tasks[u].ph # "unspawned"}) < MaxThunks
    /\ tasks' = [tasks EXCEPT
           ![t] = ResumeRec(t, id, "dispatch", top, k + 1, p),
           ![NumCallers + id] = TaskRec("spawned", "none", 0, k - 1, k - 1, p.a)]
    /\ calls' = Record(pre, id,
           hs \o <<HookEv("enter", id, k), HookEv("exit", id, k)>>
              \o ResumeHooks(id, k + 1, top),
           ResumeRet(k + 1, top, "unit"))
    /\ UNCHANGED <<life, sync, reducer, initial, state, subscribers, mailbox,
                   oneshot, chain, wrapping, logs, wlog, inits>>

\* a LoggerMiddleware that logs the action and does not pass it on
LoggerSwallows(t, k, top, id, p, pre, hs) ==
    /\ logs' = Append(logs, <<k, "Action", p>>)
    /\ tasks' = [tasks EXCEPT ![t] = ResumeRec(t, id, "dispatch", top, k + 1, p)]
    /\ calls' = Record(pre, id,
           hs \o <<HookEv("enter", id, k), HookEv("exit", id, k)>>
              \o ResumeHooks(id, k + 1, top),
           ResumeRet(k + 1, top, "unit"))
    /\ UNCHANGED <<life, sync, reducer, initial, state, subscribers, mailbox, oneshot,
                   chain, wrapping, wlog, inits>>

\* LoggerMiddleware::dispatch of middlewares/logger.rs:
\* log!(self.log_level, "Action: {:?}", action), then inner.dispatch(action)
LoggerBefore(t, k, top, id, p, pre, hs) ==
    /\ logs' = Append(logs, <<k, "Action", p>>)
    /\ tasks' = [tasks EXCEPT ![t] = TaskRec("down", "dispatch", id, k - 1, top, p)]
    /\ calls' = Record(pre, id,
           hs \o <<HookEv("enter", id, k), HookEv("call", id, k)>>, <<>>)
    /\ UNCHANGED <<life, sync, reducer, initial, state, subscribers, mailbox, oneshot,
                   chain, wrapping, wlog, inits>>

\* a StoreWithMiddleware that sends the action on to the Store whatever its
\* middleware's hook does
HookLeaks(t, k, top, id, p, pre, hs) ==
    Send(t, Msg("Dispatch", t, id, p),
         TaskRec("wait", "dispatch", id, 0, top, p), pre,
         Append(hs, HookEv("enter", id, k)))

\* MiddleWare::dispatch of a middleware that cancels the action: the hook
\* returns without a call of inner.dispatch
HookReturns(t, k, top, id, p, pre, hs) ==
    /\ tasks' = [tasks EXCEPT ![t] = ResumeRec(t, id, "dispatch", top, k + 1, p)]
    /\ calls' = Record(pre, id,
           hs \o <<HookEv("enter", id, k), HookEv("exit", id, k)>>
              \o ResumeHooks(id, k + 1, top),
           ResumeRet(k + 1, top, "unit"))
    /\ UNCHANGED <<life, sync, reducer, initial, state, subscribers, mailbox, oneshot,
                   chain, wrapping, logs, wlog, inits>>

\* the inner dispatches the hooks of the user's middlewares have made for call id
ForwardsMade(id) ==
    IF id \notin DOMAIN calls THEN 0
    ELSE LET h == calls[id].hooks
         IN Cardinality({i \in DOMAIN h : h[i].h = "call" /\ chain[h[i].k] = "user"})

\* MiddleWare::dispatch of a middleware that forwards the action, up to its
\* first inner.dispatch(action)
HookForwards(t, k, top, id, p, pre, hs) ==
    /\ ForwardsMade(id) < MaxForwards
    /\ tasks' = [tasks EXCEPT ![t] = TaskRec("down", "dispatch", id, k - 1, top, p)]
    /\ calls' = Record(pre, id,
           hs \o <<HookEv("enter", id, k), HookEv("call", id, k)>>, <<>>)
    /\ UNCHANGED <<life, sync, reducer, initial, state, subscribers, mailbox, oneshot,
                   chain, wrapping, logs, wlog, inits>>

\* MiddleWare::dispatch of a middleware written by the user, which decides per
\* invocation whether it forwards the action
HookEnter(t, k, top, id, p, pre, hs) ==
    \/ HookReturns(t, k, top, id, p, pre, hs)
    \/ HookForwards(t, k, top, id, p, pre, hs)

EnterDispatch(t, k, top, id, p, pre) ==
    LET d == Descend(id, k, p, <<>>) IN
    IF d.k = 0
    THEN Send(t, Msg("Dispatch", t, id, d.p),
              TaskRec("wait", "dispatch", id, 0, top, d.p), pre, d.hs)
    ELSE IF chain[d.k] = "testlog"
    THEN TestLogBefore(t, d.k, top, id, d.p, pre, d.hs)
    ELSE IF chain[d.k] = "logger"
    THEN LoggerBefore(t, d.k, top, id, d.p, pre, d.hs)
    ELSE IF chain[d.k] = "user"
    THEN HookEnter(t, d.k, top, id, d.p, pre, d.hs)
    ELSE ThunkSpawn(t, d.k, top, id, d.p, pre, d.hs)

\* a StoreWithMiddleware that runs its middleware's hook on select / subscribe
QueryHooksAll(id, k) == [j \in 1..k |-> HookEv("enter", id, k + 1 - j)]

\* the middleware hooks a select or subscribe on layer k runs: none,
\* StoreWithMiddleware::select / subscribe call self.inner's
QueryHooks(id, k) == <<>>

\* StoreApi::select / subscribe on layer k: Store's for k = 0, and for k > 0
\* StoreWithMiddleware's, down to the Store
\* The selector or subscriber moves into the message: the task keeps nothing of it.
EnterQuery(t, k, top, id, op, arg, pre) ==
    Send(t, Msg(IF op = "select" THEN "Select" ELSE "Subscribe", t, id, arg),
         TaskRec("wait", op, id, 0, top, "none"), pre, QueryHooks(id, k))

----------------------------------------------------------------------------
(* The callers: tasks holding the composed store *)

\* the callers are alike: they are numbered in the order of their first calls
Started(t) == \E id \in DOMAIN calls : calls[id].t = t

\* the calls the callers have made
CallerCalls == {id \in DOMAIN calls : calls[id].t \in Callers}

\* the composed store is owned by wrap while StoreWithMiddleware::new runs
CanCall(t, limit) ==
    /\ alive
    /\ tasks[t].ph = "idle"
    /\ wrapping = <<>>
    /\ Cardinality(CallerCalls) < limit
    /\ t > 1 => Started(t - 1)

\* store.dispatch(p).await, up to its first await
CallDispatch(t, p, limit) ==
    /\ CanCall(t, limit)
    /\ EnterDispatch(t, Len(chain), Len(chain), nextId, p,
                     <<CallRec(t, "dispatch", Len(chain), p)>>)

\* store.select(selector).await, up to its first await
CallSelect(t, limit) ==
    /\ CanCall(t, limit)
    /\ EnterQuery(t, Len(chain), Len(chain), nextId, "select", "value",
                  <<CallRec(t, "select", Len(chain), "value")>>)

\* store.subscribe(subscriber).await, up to its first await; the subscriber
\* is named by the id of the call that registers it
CallSubscribe(t, limit) ==
    /\ CanCall(t, limit)
    /\ EnterQuery(t, Len(chain), Len(chain), nextId, "subscribe", nextId,
                  <<CallRec(t, "subscribe", Len(chain), nextId)>>)

\* a hook's inner.dispatch(action): StoreApi::dispatch of the next layer
DownDispatch(t) ==
    /\ tasks[t].ph = "down"
    /\ tasks[t].op = "dispatch"
    /\ EnterDispatch(t, tasks[t].lay, tasks[t].top, tasks[t].id, tasks[t].a, <<>>)

\* Address::send, second half: rx.await.unwrap() yields the worker's result, and
\* the call returns through the layers that only await it
Return(t) ==
    /\ tasks[t].ph = "wait"
    /\ Len(oneshot[t]) = 1
    /\ LET r == tasks[t]
           from == IF r.op = "dispatch" THEN 1 ELSE r.top + 1
       IN /\ tasks' = [tasks EXCEPT ![t] = ResumeRec(t, r.id, r.op, r.top, from, r.a)]
          /\ calls' = Record(<<>>, r.id, ResumeHooks(r.id, from, r.top),
                             ResumeRet(from, r.top, oneshot[t][1]))
    /\ oneshot' = [oneshot EXCEPT ![t] = <<>>]
    /\ UNCHANGED <<life, sync, reducer, initial, state, subscribers, mailbox, chain,
                   wrapping, logs, wlog, inits>>

\* the user's middleware after an inner.dispatch(..).await: one more
\* inner.dispatch(action), or the return of the hook
HookAfter(t) ==
    /\ tasks[t].ph = "up"
    /\ chain[tasks[t].lay] = "user"
    /\ LET r == tasks[t] IN
          \/ /\ ForwardsMade(r.id) < MaxForwards
             /\ tasks' = [tasks EXCEPT
                    ![t] = TaskRec("down", "dispatch", r.id, r.lay - 1, r.top, r.a)]
             /\ calls' = Record(<<>>, r.id, <<HookEv("call", r.id, r.lay)>>, <<>>)
          \/ /\ tasks' = [tasks EXCEPT
                    ![t] = ResumeRec(t, r.id, r.op, r.top, r.lay + 1, r.a)]
             /\ calls' = Record(<<>>, r.id,
                    <<HookEv("exit", r.id, r.lay)>> \o ResumeHooks(r.id, r.lay + 1, r.top),
                    ResumeRet(r.lay + 1, r.top, "unit"))
    /\ UNCHANGED <<life, sync, reducer, initial, state, subscribers, mailbox, oneshot,
                   chain, wrapping, logs, wlog, inits>>

\* a logger that keeps the action it logged last in a field of the middleware
\* and logs that one after inner.dispatch
TestLogAfterShared(t) ==
    /\ tasks[t].ph = "up"
    /\ LET r == tasks[t]
           mine == SelectSeq(logs, LAMBDA e : e[1] = r.lay /\ e[2] = "Before")
       IN /\ logs' = Append(logs, <<r.lay, "After", mine[Len(mine)][3]>>)
          /\ tasks' = [tasks EXCEPT ![t] = ResumeRec(t, r.id, r.op, r.top, r.lay + 1, r.a)]
          /\ calls' = Record(<<>>, r.id,
                <<HookEv("exit", r.id, r.lay)>> \o ResumeHooks(r.id, r.lay + 1, r.top),
                ResumeRet(r.lay + 1, r.top, "unit"))
    /\ UNCHANGED <<life, sync, reducer, initial, state, subscribers, mailbox, oneshot,
                   chain, wrapping, wlog, inits>>

\* tests::LoggerMiddleware::dispatch of middleware.rs, after inner.dispatch
TestLogAfter(t) ==
    /\ tasks[t].ph = "up"
    /\ LET r == tasks[t] IN
          /\ logs' = Append(logs, <<r.lay, "After", r.a>>)
          /\ tasks' = [tasks EXCEPT ![t] = ResumeRec(t, r.id, r.op, r.top, r.lay + 1, r.a)]
          /\ calls' = Record(<<>>, r.id,
                <<HookEv("exit", r.id, r.lay)>> \o ResumeHooks(r.id, r.lay + 1, r.top),
                ResumeRet(r.lay + 1, r.top, "unit"))
    /\ UNCHANGED <<life, sync, reducer, initial, state, subscribers, mailbox, oneshot,
                   chain, wrapping, wlog, inits>>

----------------------------------------------------------------------------
(* StateWorker::run: one turn of `while let Some(work) = mailbox.recv().await`, *)
(* which is UnitOfWork::execute = handle_work, then callback.send(result)       *)

\* let _ = self.callback.send(result): the result reaches the caller if it still
\* awaits this call, and is discarded if the receiver was dropped
Reply(m, res) ==
    IF tasks[m.t].ph = "wait" /\ tasks[m.t].id = m.id
    THEN [oneshot EXCEPT ![m.t] = <<res>>]
    ELSE oneshot

\* a worker that notifies the first subscriber only
NotifyFirstOnly(id, subs, new) ==
    [i \in 1..(IF subs = <<>> THEN 0 ELSE 1) |-> NotifyEv(id, subs[i], new)]

\* a worker that notifies only the subscribers whose subscribe call had returned
\* when the dispatch was called
NotifyReturnedOnly(id, subs, new) ==
    LET known == SelectSeq(subs, LAMBDA sub : sub \in calls[id].before)
    IN [i \in 1..Len(known) |-> NotifyEv(id, known[i], new)]

\* for subscriber in &self.subscribers { subscriber.notify(new_state) }
NotifyEvents(id, subs, new) ==
    [i \in 1..Len(subs) |-> NotifyEv(id, subs[i], new)]

\* a worker that signals completion before it notifies the subscribers
ReplyBeforeNotify(id, a, subs, new) ==
    <<ReduceEv(id, a, new), ReplyEv(id)>> \o
    [i \in 1..Len(subs) |-> NotifyEv(id, subs[i], new)]

\* what one Dispatch does after the reducer, in order: notify, then callback.send
DispatchEvents(id, a, subs, new) ==
    <<ReduceEv(id, a, new)>> \o NotifyEvents(id, subs, new) \o <<ReplyEv(id)>>

\* a worker that runs the reducer twice on each action
WorkDispatchTwice ==
    /\ Len(mailbox) > 0
    /\ Head(mailbox).kind = "Dispatch"
    /\ Len(state) = 1
    /\ LET m == Head(mailbox)
           new == reduce(reducer, reduce(reducer, state[1], m.arg), m.arg)
       IN /\ state' = <<new>>
          /\ wlog' = wlog \o DispatchEvents(m.id, m.arg, subscribers, new)
          /\ oneshot' = [oneshot EXCEPT ![m.t] = <<"unit">>]
    /\ mailbox' = Tail(mailbox)
    /\ UNCHANGED <<life, sync, reducer, initial, subscribers, tasks, chain, wrapping, logs,
                   calls, inits>>

\* a worker that reduces the first of the queued dispatches and answers them all
WorkDispatchCoalesces ==
    /\ Len(mailbox) > 0
    /\ Head(mailbox).kind = "Dispatch"
    /\ Len(state) = 1
    /\ LET m == Head(mailbox)
           new == reduce(reducer, state[1], m.arg)
           rest == SelectSeq(Tail(mailbox), LAMBDA q : q.kind = "Dispatch")
       IN /\ state' = <<new>>
          /\ wlog' = wlog \o DispatchEvents(m.id, m.arg, subscribers, new)
                          \o [i \in DOMAIN rest |-> ReplyEv(rest[i].id)]
          /\ oneshot' = [t \in Tasks |->
                            IF \E i \in DOMAIN mailbox :
                                  /\ mailbox[i].kind = "Dispatch"
                                  /\ mailbox[i].t = t
                                  /\ tasks[t].ph = "wait"
                                  /\ tasks[t].id = mailbox[i].id
                            THEN <<"unit">> ELSE oneshot[t]]
    /\ mailbox' = SelectSeq(mailbox, LAMBDA q : q.kind # "Dispatch")
    /\ UNCHANGED <<life, sync, reducer, initial, subscribers, tasks, chain, wrapping, logs,
                   calls, inits>>

\* HandleWork<Dispatch>: state.take(), reduce, state = Some(new), notify
WorkDispatch ==
    /\ Len(mailbox) > 0
    /\ Head(mailbox).kind = "Dispatch"
    /\ Len(state) = 1
    /\ LET m == Head(mailbox)
           new == reduce(reducer, state[1], m.arg)
       IN /\ state' = <<new>>
          /\ wlog' = wlog \o DispatchEvents(m.id, m.arg, subscribers, new)
          /\ oneshot' = Reply(m, "unit")
    /\ mailbox' = Tail(mailbox)
    /\ UNCHANGED <<life, sync, reducer, initial, subscribers, tasks, chain, wrapping, logs,
                   calls, inits>>

\* a worker that answers a select from the state the store was built with
WorkSelectStale ==
    /\ Len(mailbox) > 0
    /\ Head(mailbox).kind = "Select"
    /\ LET m == Head(mailbox)
           res == select(initial)
       IN /\ wlog' = wlog \o <<SelectEv(m.id, res), ReplyEv(m.id)>>
          /\ oneshot' = [oneshot EXCEPT ![m.t] = <<res>>]
    /\ mailbox' = Tail(mailbox)
    /\ UNCHANGED <<life, sync, reducer, initial, state, subscribers, tasks, chain, wrapping,
                   logs, calls, inits>>

\* a worker whose select leaves the state reduced by some action
WorkSelectMutates ==
    /\ Len(mailbox) > 0
    /\ Head(mailbox).kind = "Select"
    /\ Len(state) = 1
    /\ LET m == Head(mailbox)
           res == select(state[1])
       IN /\ wlog' = wlog \o <<SelectEv(m.id, res), ReplyEv(m.id)>>
          /\ oneshot' = [oneshot EXCEPT ![m.t] = <<res>>]
          /\ state' = <<reduce(reducer, state[1],
                               CHOOSE a \in ActionsOf(reducer) : TRUE)>>
    /\ mailbox' = Tail(mailbox)
    /\ UNCHANGED <<life, sync, reducer, initial, subscribers, tasks, chain, wrapping,
                   logs, calls, inits>>

\* a worker whose select notifies the subscribers of the state
WorkSelectNotifies ==
    /\ Len(mailbox) > 0
    /\ Head(mailbox).kind = "Select"
    /\ Len(state) = 1
    /\ LET m == Head(mailbox)
           res == select(state[1])
       IN /\ wlog' = wlog \o <<SelectEv(m.id, res)>>
                          \o NotifyEvents(m.id, subscribers, state[1])
                          \o <<ReplyEv(m.id)>>
          /\ oneshot' = [oneshot EXCEPT ![m.t] = <<res>>]
    /\ mailbox' = Tail(mailbox)
    /\ UNCHANGED <<life, sync, reducer, initial, state, subscribers, tasks, chain,
                   wrapping, logs, calls, inits>>

\* a worker that serves the first Select of the queue before the work ahead of it
WorkSelectFirst ==
    /\ \E i \in DOMAIN mailbox :
          /\ mailbox[i].kind = "Select"
          /\ \A j \in 1..(i - 1) : mailbox[j].kind # "Select"
          /\ Len(state) = 1
          /\ LET m == mailbox[i]
                 res == select(state[1])
             IN /\ wlog' = wlog \o <<SelectEv(m.id, res), ReplyEv(m.id)>>
                /\ oneshot' = Reply(m, res)
          /\ mailbox' = SubSeq(mailbox, 1, i - 1) \o SubSeq(mailbox, i + 1, Len(mailbox))
    /\ UNCHANGED <<life, sync, reducer, initial, state, subscribers, tasks, chain, wrapping,
                   logs, calls, inits>>

\* HandleWork<Select>: selector.select(self.state.as_ref().unwrap())
WorkSelect ==
    /\ Len(mailbox) > 0
    /\ Head(mailbox).kind = "Select"
    /\ Len(state) = 1
    /\ LET m == Head(mailbox)
           res == select(state[1])
       IN /\ wlog' = wlog \o <<SelectEv(m.id, res), ReplyEv(m.id)>>
          /\ oneshot' = Reply(m, res)
    /\ mailbox' = Tail(mailbox)
    /\ UNCHANGED <<life, sync, reducer, initial, state, subscribers, tasks, chain, wrapping,
                   logs, calls, inits>>

\* a worker that signals completion of a subscribe without keeping the subscriber
WorkSubscribeDrop ==
    /\ Len(mailbox) > 0
    /\ Head(mailbox).kind = "Subscribe"
    /\ LET m == Head(mailbox)
       IN /\ wlog' = wlog \o <<SubscribeEv(m.id), ReplyEv(m.id)>>
          /\ oneshot' = [oneshot EXCEPT ![m.t] = <<"unit">>]
    /\ mailbox' = Tail(mailbox)
    /\ UNCHANGED <<life, sync, reducer, initial, state, subscribers, tasks, chain, wrapping,
                   logs, calls, inits>>

\* HandleWork<Subscribe>: self.subscribers.push(subscriber)
WorkSubscribe ==
    /\ Len(mailbox) > 0
    /\ Head(mailbox).kind = "Subscribe"
    /\ LET m == Head(mailbox)
       IN /\ subscribers' = Append(subscribers, m.arg)
          /\ wlog' = wlog \o <<SubscribeEv(m.id), ReplyEv(m.id)>>
          /\ oneshot' = Reply(m, "unit")
    /\ mailbox' = Tail(mailbox)
    /\ UNCHANGED <<life, sync, reducer, initial, state, tasks, chain, wrapping, logs, calls,
                   inits>>

----------------------------------------------------------------------------
(* The end of a call, of the Store and of the worker task *)

\* a caller that takes its message back when it gives up its call
AbandonCancels(t) ==
    /\ tasks[t].ph = "wait"
    /\ tasks' = [tasks EXCEPT ![t] = IdleTask]
    /\ oneshot' = [oneshot EXCEPT ![t] = <<>>]
    /\ mailbox' = SelectSeq(mailbox, LAMBDA m : m.id # tasks[t].id)
    /\ UNCHANGED <<life, sync, reducer, initial, state, subscribers, chain,
                   wrapping, logs, calls, wlog, inits>>

\* the caller drops the future of its call, Address::send at rx.await, and with
\* it the completion receiver; the message stays where it is
Abandon(t) ==
    /\ tasks[t].ph = "wait"
    /\ tasks' = [tasks EXCEPT ![t] = IdleTask]
    /\ oneshot' = [oneshot EXCEPT ![t] = <<>>]
    /\ UNCHANGED <<life, sync, reducer, initial, state, subscribers, mailbox, chain,
                   wrapping, logs, calls, wlog, inits>>

\* the Store is dropped, and its worker_address with it; a call borrows the
\* Store until it ends.  _worker_handle is dropped too: the task is detached.
DropStore ==
    /\ alive
    /\ \A t \in Callers : tasks[t].ph \in {"idle", "panicked"}
    /\ alive' = FALSE
    /\ UNCHANGED <<sync, built, ended, work, reducer, initial, state, subscribers, mailbox,
                   oneshot, tasks, chain, wrapping, logs, calls, wlog, inits>>

\* The worker task ends: run returns when recv yields None ("closed"), or the
\* task is torn down at an await, by a panic of the reducer, a selector or a
\* subscriber or by the runtime shutting down ("aborted").  The Mailbox goes
\* with it, and the messages still queued with their completion senders.
WorkerEnd(why) ==
    /\ ended = <<>>
    /\ why = "closed" => Recv = "None"
    /\ ended' = <<[why |-> why, n |-> Len(calls), state |-> state,
                   subscribers |-> subscribers]>>
    /\ mailbox' = <<>>
    /\ UNCHANGED <<sync, built, alive, work, reducer, initial, state, subscribers, oneshot,
                   tasks, chain, wrapping, logs, calls, wlog, inits>>

\* rx.await.unwrap() of a call in flight whose message was dropped unanswered
AwaitFails(t) ==
    /\ tasks[t].ph = "wait"
    /\ ended # <<>>
    /\ oneshot[t] = <<>>
    /\ tasks' = [tasks EXCEPT ![t] = Panicked(tasks[t])]
    /\ UNCHANGED <<life, sync, reducer, initial, state, subscribers, mailbox, oneshot,
                   chain, wrapping, logs, calls, wlog, inits>>

----------------------------------------------------------------------------
(* The worker step by step: run takes an item from the mailbox, execute hands *)
(* it to handle_work and sends the result; the callers run beside it          *)

\* a root reducer of the user's that panics on one action
Panics(kind, s, a) == a = "Boom"

RecvEv(id) == [ev |-> "recv", id |-> id]
PanicEv(id, a) == [ev |-> "panic", id |-> id, a |-> a]
UnwrapEv(id) == [ev |-> "unwrap", id |-> id]

\* the item execute was called on: the message, where execute is, the next
\* subscriber to notify, the state taken out of the slot, the result of handle_work
Item(m) == [m |-> m, pc |-> "handle", i |-> 1, old |-> <<>>, res |-> "unit"]

\* A panic unwinds execute and run: the item and its completion sender are dropped,
\* the spawned task ends, and the worker goes with it, its Mailbox and the
\* messages still queued, with their completion senders, included.
Unwind(why) ==
    /\ ended' = <<[why |-> why, n |-> Len(calls), state |-> state,
                   subscribers |-> subscribers]>>
    /\ mailbox' = <<>>
    /\ work' = <<>>

\* a worker that takes the next item while it is still at the last one
StepRecvEarly ==
    /\ ended = <<>>
    /\ Recv = "Some"
    /\ work' = <<Item(Head(mailbox))>>
    /\ mailbox' = Tail(mailbox)
    /\ wlog' = Append(wlog, RecvEv(Head(mailbox).id))
    /\ UNCHANGED <<sync, built, alive, ended, reducer, initial, state, subscribers,
                   oneshot, tasks, chain, wrapping, logs, calls, inits>>

\* while let Some(work) = self.mailbox.recv().await
StepRecv ==
    /\ ended = <<>>
    /\ work = <<>>
    /\ Recv = "Some"
    /\ work' = <<Item(Head(mailbox))>>
    /\ mailbox' = Tail(mailbox)
    /\ wlog' = Append(wlog, RecvEv(Head(mailbox).id))
    /\ UNCHANGED <<sync, built, alive, ended, reducer, initial, state, subscribers,
                   oneshot, tasks, chain, wrapping, logs, calls, inits>>

\* HandleWork<Dispatch>: let old_state = self.state.take().unwrap()
StepTake ==
    /\ work # <<>>
    /\ work[1].pc = "handle"
    /\ work[1].m.kind = "Dispatch"
    /\ IF state = <<>>
       THEN /\ Unwind("unwrap")
            /\ wlog' = Append(wlog, UnwrapEv(work[1].m.id))
            /\ UNCHANGED state
       ELSE /\ state' = <<>>
            /\ work' = <<[work[1] EXCEPT !.pc = "reduce", !.old = state]>>
            /\ UNCHANGED <<ended, mailbox, wlog>>
    /\ UNCHANGED <<sync, built, alive, reducer, initial, subscribers, oneshot, tasks,
                   chain, wrapping, logs, calls, inits>>

\* a worker that does not put the reducer's result into the state slot
StepReduceForgets ==
    /\ work # <<>>
    /\ work[1].pc = "reduce"
    /\ ~Panics(reducer, work[1].old[1], work[1].m.arg)
    /\ LET m == work[1].m
           new == reduce(reducer, work[1].old[1], m.arg)
       IN /\ wlog' = Append(wlog, ReduceEv(m.id, m.arg, new))
          /\ work' = <<[work[1] EXCEPT
                          !.pc = IF subscribers = <<>> THEN "callback" ELSE "notify"]>>
    /\ UNCHANGED <<sync, built, alive, ended, reducer, initial, state, subscribers,
                   mailbox, oneshot, tasks, chain, wrapping, logs, calls, inits>>

\* let new_state = self.root_reducer.reduce(old_state, action);
\* self.state = Some(new_state); if !self.subscribers.is_empty() { .. }
StepReduce ==
    /\ work # <<>>
    /\ work[1].pc = "reduce"
    /\ ~Panics(reducer, work[1].old[1], work[1].m.arg)
    /\ LET m == work[1].m
           new == reduce(reducer, work[1].old[1], m.arg)
       IN /\ state' = <<new>>
          /\ wlog' = Append(wlog, ReduceEv(m.id, m.arg, new))
          /\ work' = <<[work[1] EXCEPT
                          !.pc = IF subscribers = <<>> THEN "callback" ELSE "notify"]>>
    /\ UNCHANGED <<sync, built, alive, ended, reducer, initial, subscribers, mailbox,
                   oneshot, tasks, chain, wrapping, logs, calls, inits>>

\* a worker that catches the reducer's panic, puts the old state back, drops the
\* item and goes on with the next
StepPanicSkips ==
    /\ work # <<>>
    /\ work[1].pc = "reduce"
    /\ Panics(reducer, work[1].old[1], work[1].m.arg)
    /\ state' = work[1].old
    /\ work' = <<>>
    /\ wlog' = Append(wlog, PanicEv(work[1].m.id, work[1].m.arg))
    /\ UNCHANGED <<sync, built, alive, ended, reducer, initial, subscribers, mailbox,
                   oneshot, tasks, chain, wrapping, logs, calls, inits>>

\* self.root_reducer.reduce(old_state, action) panics: the state slot was emptied
\* by take, the task unwinds
StepPanic ==
    /\ work # <<>>
    /\ work[1].pc = "reduce"
    /\ Panics(reducer, work[1].old[1], work[1].m.arg)
    /\ Unwind("panicked")
    /\ wlog' = Append(wlog, PanicEv(work[1].m.id, work[1].m.arg))
    /\ UNCHANGED <<sync, built, alive, reducer, initial, state, subscribers, oneshot,
                   tasks, chain, wrapping, logs, calls, inits>>

\* a worker that calls the reducer again for the state it hands to a subscriber
StepNotifyRecomputes ==
    /\ work # <<>>
    /\ work[1].pc = "notify"
    /\ Len(state) = 1
    /\ LET m == work[1].m
           i == work[1].i
           new == reduce(reducer, work[1].old[1], m.arg)
       IN /\ wlog' = wlog \o <<ReduceEv(m.id, m.arg, new),
                               NotifyEv(m.id, subscribers[i], new)>>
          /\ work' = <<[work[1] EXCEPT
                          !.i = i + 1,
                          !.pc = IF i = Len(subscribers) THEN "callback" ELSE "notify"]>>
    /\ UNCHANGED <<sync, built, alive, ended, reducer, initial, state, subscribers,
                   mailbox, oneshot, tasks, chain, wrapping, logs, calls, inits>>

\* let new_state = self.state.as_ref().unwrap();
\* for subscriber in &self.subscribers { subscriber.notify(new_state) }: one turn
StepNotify ==
    /\ work # <<>>
    /\ work[1].pc = "notify"
    /\ IF state = <<>>
       THEN /\ Unwind("unwrap")
            /\ wlog' = Append(wlog, UnwrapEv(work[1].m.id))
       ELSE LET m == work[1].m
                i == work[1].i
            IN /\ wlog' = Append(wlog, NotifyEv(m.id, subscribers[i], state[1]))
               /\ work' = <<[work[1] EXCEPT
                               !.i = i + 1,
                               !.pc = IF i = Len(subscribers) THEN "callback"
                                      ELSE "notify"]>>
               /\ UNCHANGED <<ended, mailbox>>
    /\ UNCHANGED <<sync, built, alive, reducer, initial, state, subscribers, oneshot,
                   tasks, chain, wrapping, logs, calls, inits>>

\* a worker whose selector sees the state with the dispatches queued behind the
\* Select already applied
StepSelectAhead ==
    /\ work # <<>>
    /\ work[1].pc = "handle"
    /\ work[1].m.kind = "Select"
    /\ Len(state) = 1
    /\ LET ds == SelectSeq(mailbox, LAMBDA q : q.kind = "Dispatch")
           res == select(Fold(reducer, state[1], [i \in DOMAIN ds |-> ds[i].arg]))
       IN /\ wlog' = Append(wlog, SelectEv(work[1].m.id, res))
          /\ work' = <<[work[1] EXCEPT !.pc = "callback", !.res = res]>>
    /\ UNCHANGED <<sync, built, alive, ended, reducer, initial, state, subscribers,
                   mailbox, oneshot, tasks, chain, wrapping, logs, calls, inits>>

\* HandleWork<Select>: selector.select(self.state.as_ref().unwrap())
StepSelect ==
    /\ work # <<>>
    /\ work[1].pc = "handle"
    /\ work[1].m.kind = "Select"
    /\ IF state = <<>>
       THEN /\ Unwind("unwrap")
            /\ wlog' = Append(wlog, UnwrapEv(work[1].m.id))
       ELSE /\ wlog' = Append(wlog, SelectEv(work[1].m.id, select(state[1])))
            /\ work' = <<[work[1] EXCEPT !.pc = "callback", !.res = select(state[1])]>>
            /\ UNCHANGED <<ended, mailbox>>
    /\ UNCHANGED <<sync, built, alive, reducer, initial, state, subscribers, oneshot,
                   tasks, chain, wrapping, logs, calls, inits>>

\* a worker that puts a new subscriber in front of the others
StepSubscribeFront ==
    /\ work # <<>>
    /\ work[1].pc = "handle"
    /\ work[1].m.kind = "Subscribe"
    /\ subscribers' = <<work[1].m.arg>> \o subscribers
    /\ wlog' = Append(wlog, SubscribeEv(work[1].m.id))
    /\ work' = <<[work[1] EXCEPT !.pc = "callback"]>>
    /\ UNCHANGED <<sync, built, alive, ended, reducer, initial, state, mailbox, oneshot,
                   tasks, chain, wrapping, logs, calls, inits>>

\* a worker that hands the current state to a subscriber as it registers it
StepSubscribeReplays ==
    /\ work # <<>>
    /\ work[1].pc = "handle"
    /\ work[1].m.kind = "Subscribe"
    /\ Len(state) = 1
    /\ subscribers' = Append(subscribers, work[1].m.arg)
    /\ wlog' = wlog \o <<SubscribeEv(work[1].m.id),
                          NotifyEv(work[1].m.id, work[1].m.arg, state[1])>>
    /\ work' = <<[work[1] EXCEPT !.pc = "callback"]>>
    /\ UNCHANGED <<sync, built, alive, ended, reducer, initial, state, mailbox, oneshot,
                   tasks, chain, wrapping, logs, calls, inits>>

\* HandleWork<Subscribe>: self.subscribers.push(subscriber)
StepSubscribe ==
    /\ work # <<>>
    /\ work[1].pc = "handle"
    /\ work[1].m.kind = "Subscribe"
    /\ subscribers' = Append(subscribers, work[1].m.arg)
    /\ wlog' = Append(wlog, SubscribeEv(work[1].m.id))
    /\ work' = <<[work[1] EXCEPT !.pc = "callback"]>>
    /\ UNCHANGED <<sync, built, alive, ended, reducer, initial, state, mailbox, oneshot,
                   tasks, chain, wrapping, logs, calls, inits>>

\* a worker that goes back to recv without sending the result
StepCallbackSilent ==
    /\ work # <<>>
    /\ work[1].pc = "callback"
    /\ wlog' = Append(wlog, ReplyEv(work[1].m.id))
    /\ work' = <<>>
    /\ UNCHANGED <<sync, built, alive, ended, reducer, initial, state, subscribers,
                   mailbox, oneshot, tasks, chain, wrapping, logs, calls, inits>>

\* UnitOfWork::execute: let _ = self.callback.send(result); back to recv
StepCallback ==
    /\ work # <<>>
    /\ work[1].pc = "callback"
    /\ oneshot' = Reply(work[1].m, work[1].res)
    /\ wlog' = Append(wlog, ReplyEv(work[1].m.id))
    /\ work' = <<>>
    /\ UNCHANGED <<sync, built, alive, ended, reducer, initial, state, subscribers,
                   mailbox, tasks, chain, wrapping, logs, calls, inits>>

\* StateWorker::run, one step of the worker task
WorkerStep ==
    \/ StepRecv
    \/ StepTake
    \/ StepReduce
    \/ StepPanic
    \/ StepNotify
    \/ StepSelect
    \/ StepSubscribe
    \/ StepCallback

----------------------------------------------------------------------------
(* The task ThunkMiddleware spawns *)

\* LoadUsersThunk::execute: sleep, then store_api.dispatch(action).await
ThunkRun(u) ==
    /\ tasks[u].ph = "spawned"
    /\ EnterDispatch(u, tasks[u].lay, tasks[u].lay, nextId, tasks[u].a,
                     <<CallRec(u, "dispatch", tasks[u].lay, tasks[u].a)>>)

----------------------------------------------------------------------------
(* Store::wrap / StoreWithMiddleware::wrap -> StoreWithMiddleware::new *)

\* the "application started" action a middleware's init may dispatch
SeedAction(kind) ==
    CASE kind = "counter" -> "Increment"
      [] kind = "log"     -> "started"
      [] kind = "user"    -> <<"Seed">>

\* the action types allow one ThunkMiddleware, and the test logger (an action
\* type of its own, passed on unchanged) only inside it
CanWrap(kind) ==
    /\ kind = "thunk" => ~HasThunk(Len(chain))
    /\ kind = "testlog" => ~HasThunk(Len(chain))

\* StoreWithMiddleware::new: let inner = Arc::new(inner); middleware.init(&inner)
\* is called.  The store is built first and then handed to the callers.
WrapStart(kind) ==
    /\ wrapping = <<>>
    /\ Len(chain) < MaxLayers
    /\ CallerCalls = {}
    /\ tasks[Main].ph = "idle"
    /\ CanWrap(kind)
    /\ wrapping' = <<kind>>
    /\ inits' = Append(inits, [k |-> Len(chain) + 1, kind |-> kind, at |-> Len(calls)])
    /\ tasks' = [tasks EXCEPT ![Main].ph = IF kind = "seed" THEN "init" ELSE "idle"]
    /\ UNCHANGED <<life, sync, reducer, initial, state, subscribers, mailbox, oneshot, chain,
                   logs, calls, wlog>>

\* MiddleWare::init of a middleware that launches an "application started"
\* action: inner.dispatch(action).await
SeedInit ==
    /\ tasks[Main].ph = "init"
    /\ LET k == Len(chain) IN
       EnterDispatch(Main, k, k, nextId, Outer(k, SeedAction(reducer)),
           <<CallRec(Main, "dispatch", k, Outer(k, SeedAction(reducer)))>>)

\* a StoreWithMiddleware::new that does not await init
InitSkipped == TRUE

\* init has returned
InitDone == tasks[Main].ph = "idle"

\* StoreWithMiddleware::new: StoreWithMiddleware { inner, middleware, .. }
WrapFinish ==
    /\ wrapping # <<>>
    /\ InitDone
    /\ chain' = Append(chain, wrapping[1])
    /\ wrapping' = <<>>
    /\ UNCHANGED <<life, sync, reducer, initial, state, subscribers, mailbox, oneshot,
                   tasks, logs, calls, wlog, inits>>

----------------------------------------------------------------------------
(* Specifications *)

\* no synchronous Store has been built
NoSyncStore ==
    /\ store_reducer = <<>>
    /\ store_state = 0
    /\ middleware = <<>>
    /\ subscriptions = <<>>
    /\ trace = <<>>

\* Store::new_with_state: StateWorker::new(root_reducer, state), worker spawned
InitStore(kinds) ==
    /\ NoSyncStore
    /\ built \in {"new", "new_with_state"}
    /\ alive = TRUE
    /\ ended = <<>>
    /\ work = <<>>
    /\ reducer \in kinds
    /\ initial \in InitialStates(built, reducer)
    /\ state = WorkerNew(reducer, initial)
    /\ subscribers = <<>>
    /\ mailbox = <<>>
    /\ oneshot = [t \in Tasks |-> <<>>]
    /\ tasks = [t \in Tasks |->
                  IF t \in Thunks THEN TaskRec("unspawned", "none", 0, 0, 0, "none")
                  ELSE IdleTask]
    /\ chain = <<>>
    /\ wrapping = <<>>
    /\ logs = <<>>
    /\ calls = <<>>
    /\ wlog = <<>>
    /\ inits = <<>>

WorkerNext ==
    \/ WorkDispatch
    \/ WorkSelect
    \/ WorkSubscribe

\* the callers cs make at most limit calls, their dispatches drawn from ps
CallerNext(cs, limit, ps) ==
    \E t \in cs :
        \/ \E p \in ps : CallDispatch(t, p, limit)
        \/ CallSelect(t, limit)
        \/ CallSubscribe(t, limit)
        \/ Return(t)

\* the plain Store, called by concurrent tasks
Init == InitStore({"counter", "log"})
Next == WorkerNext \/ CallerNext(Callers, MaxCalls, OuterActions(Len(chain)))
Spec == Init /\ [][Next]_vars

\* the Store wrapped in logging and forwarding middlewares
MwKinds == {"testlog", "seed"}
\* the callers dispatch Log("Log 1"), Log("Log 2"), ... in the order the calls begin
LogNames == <<"Log 1", "Log 2", "Log 3", "Log 4">>
NextLog ==
    LET n == Cardinality({id \in CallerCalls : calls[id].op = "dispatch"}) + 1
    IN LogNames[IF n <= Len(LogNames) THEN n ELSE Len(LogNames)]
InitMw == InitStore({"log"})
NextMw ==
    \/ WorkerNext
    \/ CallerNext(MwCallers, MaxMwCalls, {NextLog})
    \/ \E t \in MwCallers : DownDispatch(t) \/ TestLogAfter(t)
    \/ Return(Main) \/ DownDispatch(Main) \/ TestLogAfter(Main)
    \/ \E kind \in MwKinds : WrapStart(kind)
    \/ SeedInit
    \/ WrapFinish
SpecMw == InitMw /\ [][NextMw]_vars

\* the Store wrapped in ThunkMiddleware and forwarding middlewares
ThunkKinds == {"thunk", "seed"}
InitThunk == InitStore({"user"})
NextThunk ==
    \/ WorkerNext
    \/ CallerNext(ThunkCallers, MaxThunkCalls, OuterActions(Len(chain)))
    \/ \E u \in Thunks : ThunkRun(u) \/ Return(u)
    \/ Return(Main)
    \/ \E kind \in ThunkKinds : WrapStart(kind)
    \/ SeedInit
    \/ WrapFinish
SpecThunk == InitThunk /\ [][NextThunk]_vars

\* the plain Store with callers that give up calls, a Store that is dropped and
\* a worker task that ends
InitLife == InitStore({"log"})
NextLife ==
    \/ WorkerNext
    \/ CallerNext(MwCallers, MaxLifeCalls, {NextLog})
    \/ \E t \in MwCallers : Abandon(t) \/ AwaitFails(t)
    \/ DropStore
    \/ \E why \in {"closed", "aborted"} : WorkerEnd(why)
SpecLife == InitLife /\ [][NextLife]_vars

\* the Store wrapped in LoggerMiddleware and in middlewares that forward an
\* action zero, one or several times
FwdKinds == {"logger", "user"}
InitFwd == InitStore({"log"})
NextFwd ==
    \/ WorkerNext
    \/ CallerNext(ThunkCallers, MaxFwdCalls, {NextLog})
    \/ \E t \in ThunkCallers : DownDispatch(t) \/ HookAfter(t)
    \/ \E kind \in FwdKinds : WrapStart(kind)
    \/ WrapFinish
SpecFwd == InitFwd /\ [][NextFwd]_vars

\* the plain Store with a reducer that panics on Boom, its worker taken step by
\* step beside the callers
StepActions == {NextLog, "Boom"}
InitSteps == InitStore({"log"})
NextSteps ==
    \/ WorkerStep
    \/ CallerNext(Callers, MaxStepCalls, StepActions)
    \/ \E t \in Callers : AwaitFails(t)
SpecSteps == InitSteps /\ [][NextSteps]_vars

\* the plain Store whose reducer does not panic, its worker task and its callers
\* scheduled fairly: a task that can go on does go on
WorkerLive ==
    \/ StepRecv
    \/ StepTake
    \/ StepReduce
    \/ StepNotify
    \/ StepSelect
    \/ StepSubscribe
    \/ StepCallback
NextLive ==
    \/ WorkerLive
    \/ CallerNext(MwCallers, MaxLiveCalls, {NextLog})
\* every step of the worker changes its history or its state slot, every return
\* the history of the calls
FairLive ==
    /\ WF_<<wlog, state>>(WorkerLive)
    /\ \A t \in MwCallers : WF_calls(Return(t))
SpecLive == InitSteps /\ [][NextLive]_vars /\ FairLive

\* the plain Store with a counter, its callers dispatching side by side
InitCount == InitStore({"counter"})
NextCount ==
    \/ WorkDispatch
    \/ \E t \in Callers :
          \/ \E a \in ActionsOf("counter") : CallDispatch(t, a, MaxCountCalls)
          \/ Return(t)
SpecCount == InitCount /\ [][NextCount]_vars

----------------------------------------------------------------------------
(* The synchronous Store of src/src/store.rs *)

\* reducer_counter and reducer_take_two of tests/combine.rs, add_two_reducer of
\* the example in reducer.rs; apply_reducer knows double_reducer of
\* tests/replace.rs too
Reducers == {"counter", "take_two", "add_two"}

SyncActions == {"Increment", "Decrement"}

\* one reducer applied: fn(&State, &Action) -> State
apply_reducer(r, s, a) ==
    CASE r = "counter"  -> (IF a = "Increment" THEN s + 1 ELSE s - 1)
      [] r = "take_two" -> s * 2
      [] r = "add_two"  -> s + 2
      [] r = "double"   -> (IF a = "Increment" THEN s + 2 ELSE s - 2)

RECURSIVE CombineLastFirst(_, _, _)
\* a combine_reducers! that hands the state to the last reducer first
CombineLastFirst(rs, s, a) ==
    IF Len(rs) = 1 THEN apply_reducer(rs[1], s, a)
    ELSE CombineLastFirst(SubSeq(rs, 1, Len(rs) - 1),
                          apply_reducer(rs[Len(rs)], s, a), a)

RECURSIVE combine_reducers(_, _, _)
\* combine_reducers!(State, Action, rs...) applied to (s, a): one reducer is
\* itself; else (combine_reducers!(.., second..))(&first(state, action), action)
combine_reducers(rs, s, a) ==
    IF Len(rs) = 1 THEN apply_reducer(rs[1], s, a)
    ELSE combine_reducers(Tail(rs), apply_reducer(Head(rs), s, a), a)

\* type State = i8 of the tests
I8 == -128..127

RECURSIVE Fits(_, _, _)
\* no reducer of rs overflows the state on (s, a)
Fits(rs, s, a) ==
    IF rs = <<>> THEN TRUE
    ELSE /\ apply_reducer(Head(rs), s, a) \in I8
         /\ Fits(Tail(rs), apply_reducer(Head(rs), s, a), a)

\* the lists of reducers a store is built with
ReducerLists ==
    UNION {[1..n -> Reducers] : n \in 1..MaxReducers}

\* reverse_middleware and only_increment_middleware of tests/middleware.rs:
\* Option<Action>, <<>> is None
Middlewares == {"reverse", "only_increment"}

apply_middleware(m, a) ==
    CASE m = "reverse" ->
            <<IF a = "Increment" THEN "Decrement" ELSE "Increment">>
      [] m = "only_increment" ->
            (IF a = "Increment" THEN <<a>> ELSE <<>>)

\* middleware[index] has been given action `given` and has returned `next`
Ran(index, given, next) ==
    [index |-> index, m |-> middleware[index + 1], given |-> given, next |-> next]

RECURSIVE DispatchMiddlewareAll(_, _, _)
\* a dispatch_middleware that goes on with the action it had when a middleware
\* returns None
DispatchMiddlewareAll(index, action, ran) ==
    IF index = Len(middleware) THEN [ran |-> ran, final |-> <<action>>]
    ELSE LET next == apply_middleware(middleware[index + 1], action) IN
         DispatchMiddlewareAll(index + 1,
             IF next = <<>> THEN action ELSE next[1],
             Append(ran, Ran(index, action, next)))

RECURSIVE dispatch_middleware(_, _, _)
\* Store::dispatch_middleware(index, action): the middlewares run so far are
\* `ran`; the result is those run in all, and <<the action the reducer is given>>
\* or <<>> when the reducer is not reached
dispatch_middleware(index, action, ran) ==
    IF index = Len(middleware) THEN [ran |-> ran, final |-> <<action>>]
    ELSE LET next == apply_middleware(middleware[index + 1], action) IN
         IF next = <<>>
         THEN [ran |-> Append(ran, Ran(index, action, next)), final |-> <<>>]
         ELSE dispatch_middleware(index + 1, next[1],
                                  Append(ran, Ran(index, action, next)))

\* the place of a subscription that was removed
Vacant == 0

\* the subscriptions still registered, in order
Live(subs) == SelectSeq(subs, LAMBDA c : c # Vacant)

\* a store that runs its subscriptions last to first
DispatchSubscriptionsReversed(s) ==
    LET live == Live(subscriptions) IN
    [i \in DOMAIN live |-> [sub |-> live[Len(live) + 1 - i], x |-> s]]

\* Store::dispatch_subscriptions: every subscription called with self.state()
dispatch_subscriptions(s) ==
    LET live == Live(subscriptions) IN
    [i \in DOMAIN live |-> [sub |-> live[i], x |-> s]]

\* Store::dispatch(action): dispatch_reducer at once when there is no
\* middleware, else dispatch_middleware(0, action); dispatch_reducer replaces
\* the state and runs the subscriptions.  The dispatches taken are those whose
\* arithmetic stays within the state's type.
Dispatch(action, limit) ==
    /\ store_reducer # <<>>
    /\ Len(trace) < limit
    /\ LET o == IF middleware = <<>> THEN [ran |-> <<>>, final |-> <<action>>]
                ELSE dispatch_middleware(0, action, <<>>)
           new == IF o.final = <<>> THEN store_state
                  ELSE combine_reducers(store_reducer, store_state, o.final[1])
       IN /\ o.final # <<>> => Fits(store_reducer, store_state, o.final[1])
          /\ store_state' = new
          /\ trace' = Append(trace,
                [a |-> action, before |-> store_state, reducer |-> store_reducer,
                 mws |-> middleware,
                 subs |-> subscriptions, ran |-> o.ran, final |-> o.final,
                 called |-> IF o.final = <<>> THEN <<>> ELSE dispatch_subscriptions(new),
                 after |-> new])
    /\ UNCHANGED <<store_reducer, middleware, subscriptions>>
    /\ UNCHANGED <<life, reducer, initial, state, subscribers, mailbox, oneshot,
                   tasks, chain, wrapping, logs, calls, wlog, inits>>

\* Store::add_middleware: self.middleware.push(middleware)
AddMiddleware(m) ==
    /\ store_reducer # <<>>
    /\ Len(middleware) < MaxMiddleware
    /\ middleware' = Append(middleware, m)
    /\ UNCHANGED <<store_reducer, store_state, subscriptions, trace>>
    /\ UNCHANGED <<life, reducer, initial, state, subscribers, mailbox, oneshot,
                   tasks, chain, wrapping, logs, calls, wlog, inits>>

\* Store::subscribe: self.subscriptions.push(callback); the callback is named
\* by its place in the Vec
Subscribe(limit) ==
    /\ store_reducer # <<>>
    /\ Len(subscriptions) < limit
    /\ subscriptions' = Append(subscriptions, Len(subscriptions) + 1)
    /\ UNCHANGED <<store_reducer, store_state, middleware, trace>>
    /\ UNCHANGED <<life, reducer, initial, state, subscribers, mailbox, oneshot,
                   tasks, chain, wrapping, logs, calls, wlog, inits>>

\* a Vec::remove(index), which moves the later subscriptions down
UnsubscribeShifts(index) ==
    /\ index \in DOMAIN subscriptions
    /\ subscriptions[index] # Vacant
    /\ subscriptions' =
          [i \in 1..(Len(subscriptions) - 1) |->
              IF i < index THEN subscriptions[i] ELSE subscriptions[i + 1]]
    /\ UNCHANGED <<store_reducer, store_state, middleware, trace>>
    /\ UNCHANGED <<life, reducer, initial, state, subscribers, mailbox, oneshot,
                   tasks, chain, wrapping, logs, calls, wlog, inits>>

\* Store::unsubscribe(index), as subscription_unsubscribe of
\* tests/subscription.rs uses it: the subscription that subscribe returned
\* index for is removed, and the others keep their indices
Unsubscribe(index) ==
    /\ index \in DOMAIN subscriptions
    /\ subscriptions[index] # Vacant
    /\ subscriptions' = [subscriptions EXCEPT ![index] = Vacant]
    /\ UNCHANGED <<store_reducer, store_state, middleware, trace>>
    /\ UNCHANGED <<life, reducer, initial, state, subscribers, mailbox, oneshot,
                   tasks, chain, wrapping, logs, calls, wlog, inits>>

\* a replace_reducer that builds the store anew
ReplaceReducerResets(rs) ==
    /\ store_reducer # <<>>
    /\ store_reducer' = rs
    /\ store_state' = 0
    /\ subscriptions' = <<>>
    /\ UNCHANGED <<middleware, trace>>
    /\ UNCHANGED <<life, reducer, initial, state, subscribers, mailbox, oneshot,
                   tasks, chain, wrapping, logs, calls, wlog, inits>>

\* Store::replace_reducer: self.reducer = reducer
ReplaceReducer(rs) ==
    /\ store_reducer # <<>>
    /\ store_reducer' = rs
    /\ UNCHANGED <<store_state, middleware, subscriptions, trace>>
    /\ UNCHANGED <<life, reducer, initial, state, subscribers, mailbox, oneshot,
                   tasks, chain, wrapping, logs, calls, wlog, inits>>

\* no asynchronous Store has been built
NoAsyncStore ==
    /\ built = "none"
    /\ alive = FALSE
    /\ ended = <<>>
    /\ work = <<>>
    /\ reducer = "none"
    /\ initial = 0
    /\ state = <<>>
    /\ subscribers = <<>>
    /\ mailbox = <<>>
    /\ oneshot = [t \in Tasks |-> <<>>]
    /\ tasks = [t \in Tasks |-> IdleTask]
    /\ chain = <<>>
    /\ wrapping = <<>>
    /\ logs = <<>>
    /\ calls = <<>>
    /\ wlog = <<>>
    /\ inits = <<>>

\* Store::new(reducer, 0) of the tests: no middleware, no subscription
InitSync ==
    /\ NoAsyncStore
    /\ store_reducer \in ReducerLists
    /\ store_state = 0
    /\ middleware = <<>>
    /\ subscriptions = <<>>
    /\ trace = <<>>

NextSync ==
    \/ \E a \in SyncActions : Dispatch(a, MaxDispatches)
    \/ \E m \in Middlewares : AddMiddleware(m)
    \/ Subscribe(MaxSubscriptions)
SpecSync == InitSync /\ [][NextSync]_vars

\* Store::new(reducer, 0) of tests/replace.rs and tests/subscription.rs
InitListeners ==
    /\ NoAsyncStore
    /\ store_reducer = <<"counter">>
    /\ store_state = 0
    /\ middleware = <<>>
    /\ subscriptions = <<>>
    /\ trace = <<>>

\* the reducers of tests/replace.rs
ReplaceReducers == {<<"counter">>, <<"double">>}

\* the synchronous Store with subscriptions and a reducer that is replaced
NextReplace ==
    \/ \E a \in SyncActions : Dispatch(a, MaxListenerDispatches)
    \/ Subscribe(MaxListeners)
    \/ \E rs \in ReplaceReducers : ReplaceReducer(rs)
SpecReplace == InitListeners /\ [][NextReplace]_vars

\* the synchronous Store with subscriptions that are removed
NextUnsub ==
    \/ \E a \in SyncActions : Dispatch(a, MaxListenerDispatches)
    \/ Subscribe(MaxListeners)
    \/ \E index \in 1..MaxListeners : Unsubscribe(index)
SpecUnsub == InitListeners /\ [][NextUnsub]_vars

----------------------------------------------------------------------------
(* Reading the histories *)

\* the calls of one operation
CallsOf(op) == {id \in DOMAIN calls : calls[id].op = op}

\* where in wlog the worker did ev for call id
At(ev, id) == {i \in DOMAIN wlog : wlog[i].ev = ev /\ wlog[i].id = id}

RECURSIVE ActionsUpTo(_)
\* the actions the worker has reduced in wlog[1..i], in order
ActionsUpTo(i) ==
    IF i = 0 THEN <<>>
    ELSE IF wlog[i].ev = "reduce" THEN Append(ActionsUpTo(i - 1), wlog[i].a)
    ELSE ActionsUpTo(i - 1)

\* the state the reducer has built once the worker has done wlog[1..i]
StateAfter(i) == Fold(reducer, initial, ActionsUpTo(i))

\* the subscribers pushed once the worker has done wlog[1..i]
SubscribedUpTo(i) == {wlog[j].id : j \in {j \in 1..i : wlog[j].ev = "subscribe"}}

\* the states subscriber sub has been notified of, in order
NotesOf(sub) ==
    LET ns == SelectSeq(wlog, LAMBDA e : e.ev = "notify" /\ e.sub = sub)
    IN [i \in DOMAIN ns |-> ns[i].x]

RECURSIVE Ascending(_)
\* a set of call ids as a sequence, in the order the calls began
Ascending(S) ==
    IF S = {} THEN <<>>
    ELSE LET m == CHOOSE x \in S : \A y \in S : x <= y
         IN <<m>> \o Ascending(S \ {m})

\* every dispatch so far was made by one task, which awaits each before the next
SingleDispatcher == \A i, j \in CallsOf("dispatch") : calls[i].t = calls[j].t

----------------------------------------------------------------------------
(* The plain Store *)

\* C1: when one caller has made all the dispatches D1..Dn, awaiting each before
\* the next, and Dn has returned, the worker's state is
\* reduce(...reduce(reduce(initial, D1), D2)..., Dn): the worker has reduced each
\* action exactly once, in submission order.
C1_SequentialFold ==
    (SingleDispatcher /\ CallsOf("dispatch") \subseteq Returned) =>
        LET ds == Ascending(CallsOf("dispatch")) IN
        /\ state = <<Fold(reducer, initial, [i \in DOMAIN ds |-> calls[ds[i]].x])>>
        /\ ActionsUpTo(Len(wlog)) = [i \in DOMAIN ds |-> calls[ds[i]].x]
        /\ \A d \in CallsOf("dispatch") : Reduced(d) = 1

\* from 0, one caller's Increment, Increment, Decrement have returned: 1
C1_Witness ==
    /\ reducer = "counter"
    /\ initial = 0
    /\ Len(calls) = 3
    /\ SingleDispatcher
    /\ CallsOf("dispatch") = 1..3
    /\ Returned = 1..3
    /\ [i \in 1..3 |-> calls[i].x] = <<"Increment", "Increment", "Decrement">>
    /\ state = <<1>>

\* C2: a select that begins after a dispatch has returned observes a state that
\* includes the dispatch's effect: the worker reduced the dispatch's action
\* before it ran the selector, and the select returns the selection of the state
\* built from every action reduced until then.
C2_ReadYourWrites ==
    \A s \in CallsOf("select") :
        /\ \A d \in calls[s].before \cap CallsOf("dispatch") : At("reduce", d) # {}
        /\ \A i \in At("select", s) :
              /\ wlog[i].x = select(StateAfter(i))
              /\ calls[s].ret # <<>> => calls[s].ret = <<wlog[i].x>>
              /\ \A d \in calls[s].before \cap CallsOf("dispatch") :
                    \A j \in At("reduce", d) : j < i

\* a select has returned a state changed by another caller's dispatch, which had
\* returned before the select began
C2_Witness ==
    \E s \in CallsOf("select") \cap Returned :
        \E d \in calls[s].before \cap CallsOf("dispatch") :
            /\ calls[d].t # calls[s].t
            /\ calls[s].ret # <<select(initial)>>

\* C3: when a dispatch has returned, the worker has run the reducer on its
\* action, its state has been replaced by the result, every subscriber that was
\* registered when the worker processed the action has been notified of the
\* result, and the completion signal was sent after the last notification.
C3_DispatchCompletes ==
    /\ state = <<StateAfter(Len(wlog))>>
    /\ \A d \in CallsOf("dispatch") \cap Returned :
          \E i \in At("reduce", d) : \E r \in At("reply", d) :
              /\ i < r
              /\ wlog[i].a = calls[d].x
              /\ wlog[i].x = reduce(reducer, StateAfter(i - 1), calls[d].x)
              /\ wlog[i].x = StateAfter(i)
              /\ \A n \in At("notify", d) : i < n /\ n < r
              /\ \A sub \in SubscribedUpTo(i) :
                    \E n \in At("notify", d) :
                        wlog[n].sub = sub /\ wlog[n].x = wlog[i].x

\* a dispatch has returned that the worker processed with two subscribers
\* registered
C3_Witness ==
    \E d \in CallsOf("dispatch") \cap Returned :
        /\ Cardinality(At("notify", d)) = 2
        /\ state = <<reduce(reducer, initial, calls[d].x)>>

\* C4: a subscriber whose subscribe call returned before N dispatches were made
\* is notified exactly N times, once per dispatch, each time with the state
\* resulting from that dispatch, in the order of the dispatches.
C4_NotifiedPerDispatch ==
    \A s \in CallsOf("subscribe") :
        LET ds == {d \in CallsOf("dispatch") \cap Returned : s \in calls[d].before}
            notes(d) == {n \in At("notify", d) : wlog[n].sub = calls[s].x}
        IN /\ \A d \in ds :
                 /\ Cardinality(notes(d)) = 1
                 /\ \A n \in notes(d) : \E i \in At("reduce", d) :
                       /\ i < n
                       /\ wlog[n].x = reduce(reducer, StateAfter(i - 1), calls[d].x)
           /\ \A d1, d2 \in ds : d1 \in calls[d2].before =>
                 \A n1 \in notes(d1) : \A n2 \in notes(d2) : n1 < n2
           /\ ds = CallsOf("dispatch") => Len(NotesOf(calls[s].x)) = Cardinality(ds)

\* from 42, a subscriber registered before one caller's Increment and Increment
\* has been notified of 43, then 44
C4_Witness ==
    /\ reducer = "counter"
    /\ initial = 42
    /\ \E s \in CallsOf("subscribe") :
          /\ \A d \in CallsOf("dispatch") : s \in calls[d].before
          /\ Cardinality(CallsOf("dispatch") \cap Returned) = 2
          /\ NotesOf(calls[s].x) = <<43, 44>>

\* C6: when a subscribe has returned, its subscriber is in the worker's list of
\* subscribers, and the worker notifies it of every dispatch that is enqueued
\* after that return.
C6_SubscribeRegisters ==
    \A s \in CallsOf("subscribe") \cap Returned :
        /\ Cardinality({i \in DOMAIN subscribers : subscribers[i] = calls[s].x}) = 1
        /\ \A d \in CallsOf("dispatch") : s \in calls[d].before =>
              \A i \in At("reduce", d) : \E n \in At("notify", d) :
                  /\ i < n
                  /\ wlog[n].sub = calls[s].x
                  /\ wlog[n].x = wlog[i].x

\* the worker has processed a dispatch enqueued after a subscribe returned, the
\* dispatch has not returned yet, and the subscriber has its notification
C6_Witness ==
    \E s \in CallsOf("subscribe") \cap Returned :
        \E d \in CallsOf("dispatch") \ Returned :
            /\ s \in calls[d].before
            /\ \E n \in At("notify", d) : wlog[n].sub = calls[s].x

----------------------------------------------------------------------------
(* The Store wrapped in middlewares *)

\* a is the beginning of b
IsPrefix(a, b) == Len(a) <= Len(b) /\ a = SubSeq(b, 1, Len(a))

\* the hooks a dispatch made on layer top runs, the reducer between the two halves
FullHooks(top) ==
    [j \in 1..(2 * top) |->
        IF j <= top THEN [h |-> "enter", k |-> top + 1 - j, n |-> 0]
        ELSE [h |-> "exit", k |-> j - top, n |-> 1]]

\* what the loggers among the layers top..1 log for one dispatch of a
LogsOf(top, a) ==
    LET down == SelectSeq([j \in 1..top |-> top + 1 - j],
                          LAMBDA k : chain[k] = "testlog")
        n == Len(down)
    IN [j \in 1..(2 * n) |->
           IF j <= n THEN <<down[j], "Before", a>>
           ELSE <<down[2 * n + 1 - j], "After", a>>]

RECURSIVE LogsOfAll(_)
LogsOfAll(ds) ==
    IF ds = <<>> THEN <<>>
    ELSE LogsOf(calls[Head(ds)].top, calls[Head(ds)].x) \o LogsOfAll(Tail(ds))

\* each dispatch had returned when the next began
Sequential ==
    \A d1, d2 \in CallsOf("dispatch") : d1 < d2 => d1 \in calls[d2].before

\* the hooks of logging layers that have run, as <<call, position in its hooks>>
LoggedHooks ==
    {c \in (DOMAIN calls) \X (1..(2 * MaxLayers)) :
        /\ c[2] \in DOMAIN calls[c[1]].hooks
        /\ chain[calls[c[1]].hooks[c[2]].k] = "testlog"}

\* the calls the init hooks made
InitCalls == {id \in DOMAIN calls : calls[id].t = Main}

\* C5: a dispatch on a store wrapped with M1, then M2 enters M2's hook, then
\* M1's, then the Store reduces the action, then M1's hook is left, then M2's;
\* when dispatches are awaited one after the other, the loggers' entries for
\* each precede all entries for the next, and the actions are reduced in order.
C5_ChainOrder ==
    /\ \A d \in CallsOf("dispatch") :
          /\ IsPrefix(calls[d].hooks, FullHooks(calls[d].top))
          /\ d \in Returned => calls[d].hooks = FullHooks(calls[d].top)
    /\ Sequential =>
          LET ds == Ascending(CallsOf("dispatch")) IN
          /\ IsPrefix(logs, LogsOfAll(ds))
          /\ IsPrefix(ActionsUpTo(Len(wlog)), [i \in DOMAIN ds |-> calls[ds[i]].x])
          /\ CallsOf("dispatch") \subseteq Returned =>
                /\ logs = LogsOfAll(ds)
                /\ state = <<Fold(reducer, initial, [i \in DOMAIN ds |-> calls[ds[i]].x])>>

\* middleware_1, then middleware_2 wrapped; "Log 1", then "Log 2" dispatched and
\* awaited: the eight entries of tests::logger_nested_middlewares
C5_Witness ==
    /\ chain = <<"testlog", "testlog">>
    /\ CallsOf("dispatch") = {1, 2}
    /\ Returned = {1, 2}
    /\ calls[1].hooks = <<[h |-> "enter", k |-> 2, n |-> 0], [h |-> "enter", k |-> 1, n |-> 0],
                          [h |-> "exit", k |-> 1, n |-> 1], [h |-> "exit", k |-> 2, n |-> 1]>>
    /\ logs = <<<<2, "Before", "Log 1">>, <<1, "Before", "Log 1">>,
                <<1, "After", "Log 1">>, <<2, "After", "Log 1">>,
                <<2, "Before", "Log 2">>, <<1, "Before", "Log 2">>,
                <<1, "After", "Log 2">>, <<2, "After", "Log 2">>>>
    /\ state = <<<<"Log 1", "Log 2">>>>

\* C7: on a StoreWithMiddleware of any depth a select or subscribe runs no
\* middleware hook: the loggers log for dispatches only, a select returns what
\* the worker's selector yields on the Store's state, and a subscribe that has
\* returned has pushed its subscriber on the Store's worker.
C7_QueriesPassThrough ==
    /\ \A q \in CallsOf("select") \cup CallsOf("subscribe") :
          /\ calls[q].hooks = <<>>
          /\ q \in Returned => At("reply", q) # {}
    /\ Len(logs) = Cardinality(LoggedHooks)
    /\ \A c \in LoggedHooks : calls[c[1]].op = "dispatch"
    /\ \A q \in CallsOf("select") \cap Returned :
          \E i \in At("select", q) : calls[q].ret = <<select(StateAfter(i))>>
    /\ \A q \in CallsOf("subscribe") \cap Returned :
          \E i \in DOMAIN subscribers : subscribers[i] = calls[q].x

\* through two layers, the outer a logger, a select has returned the Store's
\* state and a subscribe has registered its subscriber, and nothing was logged
C7_Witness ==
    /\ Len(chain) = 2
    /\ chain[2] = "testlog"
    /\ logs = <<>>
    /\ \E q \in CallsOf("select") \cap Returned :
          /\ calls[q].top = 2
          /\ calls[q].ret = <<state[1]>>
          /\ state[1] # initial
    /\ \E q \in CallsOf("subscribe") \cap Returned :
          /\ calls[q].top = 2
          /\ subscribers = <<calls[q].x>>

\* C8: each layer's init is called exactly once, while the layer is wrapped:
\* every call that runs the layer's dispatch hook began after it, on a composed
\* store that wrap had returned; a dispatch init makes and awaits has returned,
\* and its action is reduced, before any caller's call.
C8_InitOnceBeforeUse ==
    /\ Len(inits) = Len(chain) + Len(wrapping)
    /\ \A k \in DOMAIN inits :
          /\ inits[k].k = k
          /\ inits[k].kind = IF k <= Len(chain) THEN chain[k] ELSE wrapping[1]
    /\ \A id \in DOMAIN calls :
          /\ calls[id].top <= Len(chain)
          /\ \A j \in DOMAIN calls[id].hooks :
                /\ calls[id].hooks[j].k <= Len(chain)
                /\ inits[calls[id].hooks[j].k].at < id
    /\ wrapping = <<>> => InitCalls \subseteq Returned
    /\ \A i \in InitCalls : \A c \in CallerCalls :
          /\ i \in calls[c].before
          /\ At("reduce", i) # {}
          /\ \A cr \in At("reduce", c) : \A ir \in At("reduce", i) : ir < cr

\* a logger, then a middleware whose init dispatches are wrapped; the init's
\* action went through the logger and was reduced before a caller's dispatch
C8_Witness ==
    /\ chain = <<"testlog", "seed">>
    /\ InitCalls = {1}
    /\ calls[1].hooks = FullHooks(1)
    /\ \E c \in CallerCalls \cap Returned :
          /\ calls[c].op = "dispatch"
          /\ calls[c].hooks = FullHooks(2)
          /\ state = <<<<SeedAction(reducer), calls[c].x>>>>

----------------------------------------------------------------------------
(* The Store wrapped in ThunkMiddleware *)

\* the dispatches of ActionOrThunk::Thunk and of ActionOrThunk::Action
ThunkDispatches ==
    {d \in CallsOf("dispatch") : HasThunk(calls[d].top) /\ calls[d].x.tag = "Thunk"}
ActionDispatches ==
    {d \in CallsOf("dispatch") : HasThunk(calls[d].top) /\ calls[d].x.tag = "Action"}

\* the calls made by the task spawned for the thunk of dispatch d
ThunkCalls(d) == {c \in DOMAIN calls : calls[c].t = NumCallers + d}

\* C9: a dispatch of ActionOrThunk::Thunk returns without waiting for the
\* thunk: it sends the worker nothing and applies no action.  A select that
\* begins after it returned and before the thunk's own dispatch yields a state
\* without the thunk's action; a select that begins after the thunk's dispatch
\* returned yields a state with it.
C9_ThunkDetached ==
    \A d \in ThunkDispatches :
        /\ d \in Returned
        /\ \A i \in DOMAIN wlog : wlog[i].id # d
        /\ Cardinality(ThunkCalls(d)) <= 1
        /\ \A c \in ThunkCalls(d) : c > d /\ calls[c].x = calls[d].x.a
        /\ \A q \in CallsOf("select") : \A i \in At("select", q) :
              /\ wlog[i].x = select(StateAfter(i))
              /\ q \in Returned => calls[q].ret = <<wlog[i].x>>
              /\ \A c \in ThunkCalls(d) :
                    /\ q < c => \A j \in At("reduce", c) : i < j
                    /\ c \in calls[q].before => \E j \in At("reduce", c) : j < i

\* tests::load_users_thunk: the thunk dispatched, a select at once yields [],
\* and after the thunk's dispatch of the users has returned a select yields them
C9_Witness ==
    /\ initial = <<>>
    /\ \E d \in ThunkDispatches : \E c \in ThunkCalls(d) :
          \E q1, q2 \in CallsOf("select") \cap Returned :
             /\ ActionsUpTo(Len(wlog)) = <<calls[d].x.a>>
             /\ d \in calls[q1].before
             /\ q1 < c
             /\ calls[q1].ret = <<<<>>>>
             /\ c \in calls[q2].before
             /\ calls[q2].ret = <<<<"John", "Jane">>>>

\* C10: a dispatch of ActionOrThunk::Action(a) forwards a to the inner store
\* once, spawns nothing, and returns only after the inner dispatch has
\* completed: the worker has reduced a, exactly once, and replied.
C10_ActionForwarded ==
    \A d \in ActionDispatches :
        /\ ThunkCalls(d) = {}
        /\ tasks[NumCallers + d].ph = "unspawned"
        /\ Reduced(d) <= 1
        /\ \A i \in At("reduce", d) :
              /\ wlog[i].a = calls[d].x.a
              /\ wlog[i].x = reduce(reducer, StateAfter(i - 1), calls[d].x.a)
        /\ d \in Returned =>
              /\ Reduced(d) = 1
              /\ \E i \in At("reduce", d) : \E r \in At("reply", d) : i < r
              /\ state = <<StateAfter(Len(wlog))>>

\* a caller's dispatch of Action(users) through ThunkMiddleware has returned and
\* the state holds the users
C10_Witness ==
    \E d \in ActionDispatches \cap CallerCalls \cap Returned :
        /\ chain[calls[d].top] = "thunk"
        /\ ActionsUpTo(Len(wlog)) = <<calls[d].x.a>>
        /\ state = <<calls[d].x.a>>

----------------------------------------------------------------------------
(* Construction, selection *)

\* the selects the worker ran before it had reduced any action
EarlySelects ==
    {q \in CallsOf("select") :
        \E i \in At("select", q) : ActionsUpTo(i) = <<>>}

\* C11: a store built with new starts from the default state and one built with
\* new_with_state from the state given: a select (state_cloned is the select of
\* the clone selector) processed before any dispatch yields the selector's
\* result on that state.
C11_InitialState ==
    /\ built = "new" => initial = DefaultState(reducer)
    /\ built = "new_with_state" => initial \in SuppliedStates(reducer)
    /\ wlog = <<>> => state = <<initial>>
    /\ \A q \in EarlySelects : \A i \in At("select", q) :
          /\ wlog[i].x = select(initial)
          /\ q \in Returned => calls[q].ret = <<select(initial)>>

\* tests::counter_default_state: Store::new(counter_reducer), and the select
\* returns the default Counter, 42
C11_Witness ==
    /\ built = "new"
    /\ reducer = "counter"
    /\ \E q \in EarlySelects \cap Returned : calls[q].ret = <<42>>

\* the worker reduced no action between wlog[i] and wlog[j]
NoReduceBetween(i, j) == \A k \in (i + 1)..(j - 1) : wlog[k].ev # "reduce"

\* C12: selection is idempotent and free of side effects: two selects of the
\* same selector with no dispatch processed between them yield equal results.
C12_SelectIdempotent ==
    \A q1, q2 \in CallsOf("select") :
        \A i \in At("select", q1) : \A j \in At("select", q2) :
            (i < j /\ NoReduceBetween(i, j)) =>
                /\ wlog[i].x = wlog[j].x
                /\ {q1, q2} \subseteq Returned => calls[q1].ret = calls[q2].ret

\* after a dispatch, two selects with nothing between them have returned the
\* same state, which is not the initial one
C12_Witness ==
    \E q1, q2 \in CallsOf("select") \cap Returned :
        \E i \in At("select", q1) : \E j \in At("select", q2) :
            /\ i < j
            /\ NoReduceBetween(i, j)
            /\ ActionsUpTo(i) # <<>>
            /\ calls[q1].ret = calls[q2].ret
            /\ calls[q1].ret # <<select(initial)>>

\* the worker takes a Select off its mailbox
SelectStep ==
    /\ Len(mailbox) > 0
    /\ Head(mailbox).kind = "Select"
    /\ mailbox' = Tail(mailbox)

\* C13: processing a Select leaves the worker's state and its subscriber list
\* as they were and notifies nobody: it does nothing but run the selector and
\* send the result on the call's completion channel.
C13_SelectFrame ==
    [][SelectStep =>
          /\ state' = state
          /\ subscribers' = subscribers
          /\ wlog' = wlog \o <<SelectEv(Head(mailbox).id, select(state[1])),
                               ReplyEv(Head(mailbox).id)>>
          /\ oneshot' = [oneshot EXCEPT ![Head(mailbox).t] = <<select(state[1])>>]
      ]_vars

\* the worker has run a select on a reduced state with a subscriber registered,
\* and state and subscribers are what they were before it
C13_Witness ==
    \E q \in CallsOf("select") : \E i \in At("select", q) :
        /\ i + 1 = Len(wlog)
        /\ ActionsUpTo(i) # <<>>
        /\ SubscribedUpTo(i) # {}
        /\ state = <<StateAfter(i - 1)>>
        /\ {subscribers[k] : k \in DOMAIN subscribers} = SubscribedUpTo(i - 1)

----------------------------------------------------------------------------
(* The end of the Store, of the worker task and of a call *)

\* C14: when every Store and Address handle to a worker has been dropped, the
\* mailbox is closed: once it is drained recv signals end-of-stream, on which
\* the worker's run loop exits and its task completes.
C14_MailboxCloses ==
    (~alive /\ ended = <<>> /\ mailbox = <<>>) => Recv = "None"

\* the calls begun after the worker task had ended
LateCalls ==
    IF ended = <<>> THEN {} ELSE {id \in DOMAIN calls : id > ended[1].n}

\* C15: once the worker task has ended, a dispatch, select or subscribe changes
\* neither the state nor the subscriber list, its message goes nowhere, and the
\* call neither returns nor waits: the caller panics on the dropped completion
\* sender.
C15_CallsFailAfterEnd ==
    ended # <<>> =>
        /\ state = ended[1].state
        /\ subscribers = ended[1].subscribers
        /\ mailbox = <<>>
        /\ \A id \in LateCalls :
              /\ id \notin Returned
              /\ \A i \in DOMAIN wlog : wlog[i].id # id
              /\ tasks[calls[id].t].ph = "panicked"
              /\ tasks[calls[id].t].id = id

\* the worker ended holding a subscriber, and a dispatch and another call made
\* after that have both panicked
C15_Witness ==
    /\ ended # <<>>
    /\ subscribers # <<>>
    /\ \E d, q \in LateCalls : calls[d].op = "dispatch" /\ calls[q].op # "dispatch"

\* the calls whose message the worker has executed, in the order it did
Executed ==
    LET ex == SelectSeq(wlog, LAMBDA e : e.ev \in {"reduce", "select", "subscribe"})
    IN [i \in DOMAIN ex |-> ex[i].id]

\* the calls whose caller gave up the await
Abandoned ==
    {id \in DOMAIN calls : calls[id].ret = <<>> /\ tasks[calls[id].t].id # id}

\* C16: enqueued work is never cancelled or dropped.  The worker executes the
\* messages in the order they were enqueued, also those whose caller has given
\* up the await: an abandoned Dispatch still replaces the state and notifies the
\* subscribers, its result is discarded, and the worker goes on with the next.
C16_NoCancellation ==
    /\ Executed = [i \in 1..Len(Executed) |-> i]
    /\ ended = <<>> =>
          Executed \o [i \in DOMAIN mailbox |-> mailbox[i].id]
              = [i \in 1..Len(calls) |-> i]
    /\ state = <<StateAfter(Len(wlog))>>
    /\ \A t \in Callers : tasks[t].ph = "idle" => oneshot[t] = <<>>
    /\ \A d \in Abandoned \cap CallsOf("dispatch") : \A i \in At("reduce", d) :
          /\ wlog[i].x = reduce(reducer, StateAfter(i - 1), calls[d].x)
          /\ At("reply", d) # {}
          /\ \A sub \in SubscribedUpTo(i) : \E n \in At("notify", d) :
                n > i /\ wlog[n].sub = sub /\ wlog[n].x = wlog[i].x

\* a dispatch was given up after it was enqueued; the worker has reduced it and
\* notified the subscriber, and a later select has returned the state with it
C16_Witness ==
    \E d \in Abandoned \cap CallsOf("dispatch") :
        /\ At("notify", d) # {}
        /\ \E q \in CallsOf("select") \cap Returned :
              /\ q > d
              /\ calls[q].ret = <<<<calls[d].x>>>>

----------------------------------------------------------------------------
(* The Store wrapped in LoggerMiddleware and in the user's middlewares *)

\* how often call id has run hook event h of layer k
Count(id, h, k) ==
    Cardinality({i \in DOMAIN calls[id].hooks :
                    calls[id].hooks[i].h = h /\ calls[id].hooks[i].k = k})

\* every layer of the composed store is a LoggerMiddleware
OnlyLoggers == wrapping = <<>> /\ \A k \in DOMAIN chain : chain[k] = "logger"

\* the hooks a dispatch through top LoggerMiddlewares runs: each logs and calls
\* its inner store before the reducer runs, and is left after it
LoggerHooks(top) ==
    [j \in 1..(3 * top) |->
        IF j <= 2 * top
        THEN [h |-> IF j % 2 = 1 THEN "enter" ELSE "call",
              k |-> top - ((j - 1) \div 2), n |-> 0]
        ELSE [h |-> "exit", k |-> j - 2 * top, n |-> 1]]

\* C17: LoggerMiddleware forwards every action unchanged.  Each dispatch that
\* enters its hook is logged once and handed to inner.dispatch once, right after
\* the log record; through loggers only, a dispatch is reduced exactly once, as
\* the action it was given, before the hooks are left, and once the dispatches
\* have returned the state is the fold of the reducer over the dispatched
\* actions, which is the state of the unwrapped store.
C17_LoggerForwards ==
    /\ \A d \in CallsOf("dispatch") : \A k \in 1..calls[d].top :
          chain[k] = "logger" =>
             LET h == calls[d].hooks IN
             /\ \A i \in DOMAIN h : (h[i].h = "enter" /\ h[i].k = k) =>
                   /\ i + 1 \in DOMAIN h
                   /\ h[i + 1] = [h |-> "call", k |-> k, n |-> h[i].n]
             /\ Count(d, "call", k) = Count(d, "enter", k)
             /\ Cardinality({i \in DOMAIN logs : logs[i] = <<k, "Action", calls[d].x>>})
                   = Count(d, "enter", k)
    /\ OnlyLoggers =>
          LET ds == Ascending(CallsOf("dispatch")) IN
          /\ \A d \in CallsOf("dispatch") :
                /\ IsPrefix(calls[d].hooks, LoggerHooks(calls[d].top))
                /\ Reduced(d) <= 1
                /\ \A i \in At("reduce", d) : wlog[i].a = calls[d].x
                /\ d \in Returned =>
                      /\ calls[d].hooks = LoggerHooks(calls[d].top)
                      /\ Reduced(d) = 1
          /\ CallsOf("dispatch") \subseteq Returned =>
                state = <<Fold(reducer, initial, [i \in DOMAIN ds |-> calls[ds[i]].x])>>

\* "Log 1", then "Log 2" dispatched through two LoggerMiddlewares and returned:
\* four log records, and the state the plain store would hold
C17_Witness ==
    /\ chain = <<"logger", "logger">>
    /\ CallsOf("dispatch") = {1, 2}
    /\ Returned = {1, 2}
    /\ Len(logs) = 4
    /\ state = <<<<"Log 1", "Log 2">>>>

\* the dispatches call id has brought to the Store: its own when it is made on
\* the Store, and else the inner.dispatch calls of the innermost middleware
SentToStore(id) ==
    IF calls[id].top = 0 THEN 1 ELSE Count(id, "call", 1)

\* C18: an outer dispatch reaches the inner store only through the
\* inner.dispatch calls of the middleware's hook.  A call whose innermost hook
\* has forwarded nothing leaves no trace in the worker: no reduce, no
\* notification; a returned call has been reduced exactly as often as that hook
\* called inner.dispatch, and each inner.dispatch of an outer layer is one
\* dispatch on the layer below.  The state changes by these reduce steps only.
C18_OnlyByForwarding ==
    /\ \A d \in CallsOf("dispatch") :
          /\ Reduced(d) <= SentToStore(d)
          /\ SentToStore(d) <= Reduced(d) + 1
          /\ d \in Returned => Reduced(d) = SentToStore(d)
          /\ SentToStore(d) = 0 => \A i \in DOMAIN wlog : wlog[i].id # d
          /\ \A i \in At("reduce", d) : wlog[i].a = calls[d].x
          /\ \A n \in At("notify", d) :
                \E i \in At("reduce", d) : i < n /\ wlog[n].x = wlog[i].x
          /\ \A k \in 2..calls[d].top :
                /\ Count(d, "enter", k - 1) <= Count(d, "call", k)
                /\ Count(d, "call", k) <= Count(d, "enter", k - 1) + 1
                /\ d \in Returned => Count(d, "call", k) = Count(d, "enter", k - 1)
    /\ \A i \in DOMAIN wlog :
          wlog[i].ev = "reduce" => wlog[i].id \in CallsOf("dispatch")
    /\ state = <<StateAfter(Len(wlog))>>

\* behind one middleware and with a subscriber registered, a first dispatch was
\* not forwarded and has returned with state and subscriber untouched; a second
\* was forwarded twice, reduced twice and notified twice
C18_Witness ==
    /\ chain = <<"user">>
    /\ Returned = {1, 2, 3}
    /\ calls[1].op = "subscribe"
    /\ calls[2].op = "dispatch" /\ SentToStore(2) = 0 /\ calls[2].hooks # <<>>
    /\ calls[3].op = "dispatch" /\ SentToStore(3) = 2
    /\ Reduced(3) = 2
    /\ Cardinality(At("notify", 3)) = 2
    /\ state = <<<<calls[3].x, calls[3].x>>>>

----------------------------------------------------------------------------
(* The synchronous Store: combined reducers, function middlewares *)

RECURSIVE Chained(_, _, _)
\* rk(...r2(r1(s, a), a)..., a) for the reducers rs = r1..rk
Chained(rs, s, a) ==
    IF rs = <<>> THEN s
    ELSE apply_reducer(rs[Len(rs)], Chained(SubSeq(rs, 1, Len(rs) - 1), s, a), a)

RECURSIVE CombinedOver(_, _, _)
\* the state after the actions as, each reduced by the combined reducers rs
CombinedOver(rs, s, as) ==
    IF as = <<>> THEN s
    ELSE CombinedOver(rs, combine_reducers(rs, s, Head(as)), Tail(as))

\* the dispatches that have reached the reducer
Reached == {i \in DOMAIN trace : trace[i].final # <<>>}

\* C19: combine_reducers!(State, Action, r1, ..., rk) calls r1 first and chains
\* its output into the next: each dispatch that reaches the reducer leaves
\* rk(...r2(r1(s, a), a)..., a).  The order matters: from 0 and with two
\* Increments, counter then take_two leaves 6, take_two then counter leaves 3.
C19_CombineChains ==
    /\ \A i \in Reached :
          trace[i].after = Chained(store_reducer, trace[i].before, trace[i].final[1])
    /\ (/\ Len(trace) = 2
        /\ \A i \in DOMAIN trace : trace[i].mws = <<>> /\ trace[i].a = "Increment") =>
          /\ store_reducer = <<"counter", "take_two">> =>
                /\ store_state = 6
                /\ CombinedOver(<<"take_two", "counter">>, 0, <<"Increment", "Increment">>) = 3
          /\ store_reducer = <<"take_two", "counter">> => store_state = 3

\* combine_increment of tests/combine.rs: counter then take_two, two Increments
C19_Witness ==
    /\ store_reducer = <<"counter", "take_two">>
    /\ middleware = <<>>
    /\ Len(trace) = 2
    /\ trace[1].a = "Increment" /\ trace[2].a = "Increment"
    /\ trace[1].after = 2
    /\ store_state = 6

\* C20: dispatch(a) runs the middlewares in the order they were added, the
\* first on a and each next one on what the one before returned, up to the
\* first that returns None; the reducer runs, on the last action returned,
\* exactly when every middleware returned Some; otherwise the state is
\* unchanged and no subscription is called.
C20_MiddlewareOrder ==
    \A i \in DOMAIN trace :
        LET r == trace[i]
            n == Len(r.ran)
        IN /\ n <= Len(r.mws)
           /\ \A j \in 1..n :
                 /\ r.ran[j].index = j - 1
                 /\ r.ran[j].m = r.mws[j]
                 /\ r.ran[j].given = IF j = 1 THEN r.a ELSE r.ran[j - 1].next[1]
                 /\ r.ran[j].next = apply_middleware(r.mws[j], r.ran[j].given)
                 /\ j < n => r.ran[j].next # <<>>
           /\ n < Len(r.mws) => r.ran[n].next = <<>>
           /\ r.final # <<>> <=>
                 (n = Len(r.mws) /\ \A j \in 1..n : r.ran[j].next # <<>>)
           /\ r.final # <<>> =>
                 /\ r.final = IF n = 0 THEN <<r.a>> ELSE r.ran[n].next
                 /\ r.after = combine_reducers(store_reducer, r.before, r.final[1])
                 /\ r.called = [k \in DOMAIN r.subs |-> [sub |-> r.subs[k], x |-> r.after]]
           /\ r.final = <<>> => r.after = r.before /\ r.called = <<>>
           /\ r.before = IF i = 1 THEN 0 ELSE trace[i - 1].after
           /\ i = Len(trace) => store_state = r.after

\* with reverse_middleware added before only_increment_middleware and a
\* subscription: Decrement was reversed, passed on and reduced as Increment,
\* and the subscription called; Increment was reversed and then dropped, with
\* state and subscription untouched
C20_Witness ==
    /\ store_reducer = <<"counter">>
    /\ Len(trace) = 2
    /\ trace[1].mws = <<"reverse", "only_increment">>
    /\ trace[1].a = "Decrement" /\ trace[1].final = <<"Increment">>
    /\ trace[1].after = 1 /\ Len(trace[1].called) = 1
    /\ trace[2].a = "Increment" /\ trace[2].final = <<>>
    /\ Len(trace[2].ran) = 2 /\ trace[2].subs # <<>> /\ trace[2].called = <<>>
    /\ store_state = 1

----------------------------------------------------------------------------
(* The synchronous Store: replace_reducer, subscriptions *)

\* the last dispatch made
LastDispatch == trace[Len(trace)]

\* C21: replace_reducer(r2) leaves the state and the subscriptions as they are,
\* and changes what later dispatches do only: each dispatch is reduced with the
\* reducer the store holds when it is made, which is the one last put in.
\* Increment, replace_reducer(double_reducer), Increment from 0 leave 3.
C21_ReplaceReducer ==
    /\ [][store_reducer' # store_reducer =>
             /\ store_state' = store_state
             /\ subscriptions' = subscriptions
             /\ middleware' = middleware
             /\ trace' = trace]_vars
    /\ [][trace' # trace =>
             /\ store_reducer' = store_reducer
             /\ trace' = Append(trace, LastDispatch')
             /\ LastDispatch'.before = store_state
             /\ LastDispatch'.after =
                   apply_reducer(store_reducer[1], store_state, LastDispatch'.a)
             /\ store_state' = LastDispatch'.after]_vars
    /\ [](\A i \in DOMAIN trace :
             /\ trace[i].before = IF i = 1 THEN 0 ELSE trace[i - 1].after
             /\ i = Len(trace) => store_state = trace[i].after)
    /\ []((/\ Len(trace) = 2
           /\ \A i \in DOMAIN trace : trace[i].a = "Increment"
           /\ trace[1].reducer = <<"counter">>
           /\ trace[2].reducer = <<"double">>) => store_state = 3)

\* replace_increment of tests/replace.rs, with a subscription made before the
\* replacement that the second dispatch still calls
C21_Witness ==
    /\ Len(trace) = 2
    /\ trace[1].a = "Increment" /\ trace[1].reducer = <<"counter">>
    /\ trace[1].after = 1
    /\ trace[2].a = "Increment" /\ trace[2].reducer = <<"double">>
    /\ trace[1].subs = <<1>> /\ trace[2].called = <<[sub |-> 1, x |-> 3]>>
    /\ store_state = 3

\* C22: every dispatch that reaches the reducer calls each registered
\* subscription exactly once, in the order of subscription, with the state the
\* reducer has just produced; a listener subscribed at 0 is passed 1 by
\* Increment and -1 by Decrement.
C22_SubscriptionsCalled ==
    \A i \in Reached :
        LET r == trace[i] IN
        /\ Len(r.called) = Len(r.subs)
        /\ \A k \in DOMAIN r.subs :
              /\ r.called[k].sub = r.subs[k]
              /\ r.called[k].x = r.after
              /\ r.called[k].x = apply_reducer(r.reducer[1], r.before, r.final[1])
        /\ r.subs = [k \in DOMAIN r.subs |-> k]
        /\ (r.before = 0 /\ r.reducer = <<"counter">> /\ r.subs # <<>>) =>
              r.called[1].x = IF r.a = "Increment" THEN 1 ELSE -1

\* two listeners subscribed at 0, a third after Increment; Decrement then
\* calls the three in the order they subscribed, each with 0
C22_Witness ==
    /\ Len(trace) = 2
    /\ trace[1].a = "Increment"
    /\ trace[1].called = <<[sub |-> 1, x |-> 1], [sub |-> 2, x |-> 1]>>
    /\ trace[2].a = "Decrement"
    /\ trace[2].called = <<[sub |-> 1, x |-> 0], [sub |-> 2, x |-> 0], [sub |-> 3, x |-> 0]>>

----------------------------------------------------------------------------
(* The worker's queue: one order for all callers and all kinds of work *)

\* the actions of the dispatches called before call q, in the order of the calls
DispatchedBefore(q) ==
    LET ds == SelectSeq([i \in 1..(q - 1) |-> i],
                        LAMBDA d : calls[d].op = "dispatch")
    IN [i \in DOMAIN ds |-> calls[ds[i]].x]

\* C24: the worker processes the work items strictly in the order they were
\* enqueued, whoever sent them and whatever their kind: the queue holds them in
\* the order of the sends, all the worker has done belongs to earlier sends than
\* anything queued, and what it has done is in that order too.  A Dispatch
\* enqueued before a Select is reduced, notified and answered before the selector
\* runs, and the selector sees the state with that Dispatch applied.
C24_EnqueueOrder ==
    /\ \A i, j \in DOMAIN mailbox : i < j => mailbox[i].id < mailbox[j].id
    /\ \A i \in DOMAIN wlog : \A j \in DOMAIN mailbox : wlog[i].id < mailbox[j].id
    /\ \A i, j \in DOMAIN wlog : i < j => wlog[i].id <= wlog[j].id
    /\ \A q \in CallsOf("select") : \A i \in At("select", q) :
          /\ wlog[i].x = select(Fold(reducer, initial, DispatchedBefore(q)))
          /\ \A d \in CallsOf("dispatch") : d < q =>
                /\ \E r \in At("reduce", d) : \E p \in At("reply", d) : r < p /\ p < i
                /\ \A n \in At("notify", d) : n < i

\* one caller's dispatch and, while that call had not returned, another caller's
\* select were enqueued; the select has returned the state with the dispatch in
C24_Witness ==
    /\ reducer = "log"
    /\ \E d \in CallsOf("dispatch") : \E q \in CallsOf("select") \cap Returned :
          /\ d < q
          /\ calls[d].t # calls[q].t
          /\ d \notin calls[q].before
          /\ calls[q].ret = <<<<calls[d].x>>>>

\* C25: a Subscribe enqueued before a Dispatch is in force for that Dispatch,
\* also when neither call had completed and the two came from different
\* callers: once the worker has reduced the Dispatch, the subscriber has been
\* notified of it, once, with the state the reducer returned.
C25_SubscribeBeforeDispatch ==
    \A s \in CallsOf("subscribe") : \A d \in CallsOf("dispatch") :
        s < d =>
            \A i \in At("reduce", d) :
                LET notes == {n \in At("notify", d) : wlog[n].sub = calls[s].x}
                IN /\ Cardinality(notes) = 1
                   /\ \A n \in notes : i < n /\ wlog[n].x = wlog[i].x

\* a subscribe and then another caller's dispatch were enqueued, neither call has
\* returned, and the worker has notified the subscriber of the dispatch
C25_Witness ==
    \E s \in CallsOf("subscribe") \ Returned : \E d \in CallsOf("dispatch") \ Returned :
        /\ s < d
        /\ calls[s].t # calls[d].t
        /\ s \notin calls[d].before
        /\ \E n \in At("notify", d) : wlog[n].sub = calls[s].x

----------------------------------------------------------------------------
(* The worker step by step *)

\* the item the worker is at, if it has call id's
AtWork(id) == work # <<>> /\ work[1].m.id = id

\* the calls whose item the worker has taken from the mailbox
Received == {id \in DOMAIN calls : At("recv", id) # {}}

\* C26: at most one work item is being processed at any time.  What the worker
\* does for one item is one unbroken run of its history, from the receive to
\* the completion signal: the next receive comes only after that signal, a
\* Dispatch's run is receive, reduce, a notification per subscriber, signal, and
\* the state is at every moment the fold of the reduce steps so far, so no
\* mutation falls inside a selection or inside another dispatch's steps.
C26_OneAtATime ==
    /\ \A i \in DOMAIN wlog : wlog[i].ev = "recv" =>
          /\ i > 1 => wlog[i - 1].ev = "reply"
          /\ \A j \in DOMAIN wlog : j < i => wlog[j].id < wlog[i].id
    /\ \A i \in DOMAIN wlog : wlog[i].ev # "recv" =>
          /\ i > 1
          /\ wlog[i - 1].id = wlog[i].id
          /\ wlog[i - 1].ev # "reply"
    /\ \A id \in Received :
          /\ Cardinality(At("recv", id)) = 1
          /\ At("reply", id) = {} /\ ended = <<>> => AtWork(id)
          /\ At("reply", id) # {} => ~AtWork(id)
    /\ work # <<>> => work[1].m.id \in Received /\ wlog[Len(wlog)].id = work[1].m.id
    /\ \A d \in CallsOf("dispatch") : \A p \in At("reply", d) :
          \E r \in At("reduce", d) :
              /\ wlog[r - 1].ev = "recv"
              /\ \A n \in (r + 1)..(p - 1) : wlog[n].ev = "notify"
    /\ \A q \in CallsOf("select") : \A i \in At("select", q) :
          /\ wlog[i - 1].ev = "recv"
          /\ wlog[i].x = select(StateAfter(i))
          /\ Len(wlog) > i => wlog[i + 1].ev = "reply"
    /\ state # <<>> => state = <<StateAfter(Len(wlog))>>

\* the worker has notified the subscriber of one caller's dispatch and has not
\* yet sent the completion signal; a dispatch of another caller waits in the mailbox
C26_Witness ==
    /\ work # <<>>
    /\ work[1].pc = "callback"
    /\ work[1].m.kind = "Dispatch"
    /\ At("notify", work[1].m.id) # {}
    /\ \E i \in DOMAIN mailbox :
          /\ mailbox[i].kind = "Dispatch"
          /\ mailbox[i].t # work[1].m.t

\* C27: the state slot is empty exactly while the worker is inside the reduce
\* step of a Dispatch, between take and the assignment of the reducer's result
\* (and for good once a reducer has panicked there).  It holds a value whenever
\* the worker starts or finishes an item, and no unwrap of the slot ever fails.
C27_StatePresent ==
    /\ state = <<>> <=>
          \/ work # <<>> /\ work[1].pc = "reduce" /\ work[1].m.kind = "Dispatch"
          \/ ended # <<>> /\ ended[1].why = "panicked"
    /\ work # <<>> /\ work[1].pc \in {"handle", "notify", "callback"} => Len(state) = 1
    /\ work = <<>> /\ ended = <<>> => Len(state) = 1
    /\ ended # <<>> => ended[1].why # "unwrap"
    /\ \A i \in DOMAIN wlog : wlog[i].ev # "unwrap"

\* a second Dispatch is in its reduce step, the slot empty; the first has left
\* its state in the slot, from which the second took it
C27_Witness ==
    /\ state = <<>>
    /\ ended = <<>>
    /\ work # <<>>
    /\ work[1].pc = "reduce"
    /\ work[1].old = <<<<"Log 1">>>>
    /\ \E d \in CallsOf("dispatch") : At("reply", d) # {}

\* how often the reducer was called for call id: it returned, or it panicked
ReducerCalls(id) == Cardinality(At("reduce", id) \cup At("panic", id))

\* the dispatches the worker has taken through the reducer
Processed ==
    {d \in CallsOf("dispatch") \cap Received :
        ~(AtWork(d) /\ work[1].pc \in {"handle", "reduce"})}

\* C28: the reducer is called exactly once for each Dispatch the worker
\* processes, and never for a Select or a Subscribe; the number of reducer
\* calls equals the number of dispatches processed.
C28_ReducerOncePerDispatch ==
    /\ \A id \in CallsOf("select") \cup CallsOf("subscribe") : ReducerCalls(id) = 0
    /\ \A d \in CallsOf("dispatch") :
          ReducerCalls(d) = IF d \in Processed THEN 1 ELSE 0
    /\ Cardinality({i \in DOMAIN wlog : wlog[i].ev \in {"reduce", "panic"}})
          = Cardinality(Processed)
    /\ \A i \in DOMAIN wlog : wlog[i].ev \in {"reduce", "panic"} =>
          /\ wlog[i].id \in CallsOf("dispatch")
          /\ wlog[i].a = calls[wlog[i].id].x

\* a subscribe, a dispatch that notified the subscriber and a select have been
\* executed: the reducer was called once
C28_Witness ==
    /\ \E s \in CallsOf("subscribe") : At("reply", s) # {}
    /\ \E q \in CallsOf("select") : At("reply", q) # {}
    /\ \E d \in CallsOf("dispatch") : At("notify", d) # {} /\ At("reply", d) # {}
    /\ Cardinality({i \in DOMAIN wlog : wlog[i].ev = "reduce"}) = 1

\* the subscribers registered once the worker has done wlog[1..i], in the order
\* they were registered
RegisteredUpTo(i) ==
    LET ss == SelectSeq(SubSeq(wlog, 1, i), LAMBDA e : e.ev = "subscribe")
    IN [k \in DOMAIN ss |-> calls[ss[k].id].x]

\* the subscribers notified of dispatch d, in the order they were notified
NotifiedOf(d) ==
    LET ns == SelectSeq(wlog, LAMBDA e : e.ev = "notify" /\ e.id = d)
    IN [k \in DOMAIN ns |-> ns[k].sub]

\* C29: for each processed Dispatch the subscribers are invoked in the order
\* they were registered, each once, after the new state was stored, and each
\* receives the new state: the reducer's result for the state before and the
\* action.  Those notified are the subscribers registered when the Dispatch is
\* processed.
C29_NotifyInOrder ==
    /\ subscribers = RegisteredUpTo(Len(wlog))
    /\ \A i \in DOMAIN wlog : wlog[i].ev = "notify" => At("reduce", wlog[i].id) # {}
    /\ \A d \in CallsOf("dispatch") : \A r \in At("reduce", d) :
          LET subs == RegisteredUpTo(r)
              done == NotifiedOf(d)
          IN /\ Len(done) <= Len(subs)
             /\ done = SubSeq(subs, 1, Len(done))
             /\ ~AtWork(d) => done = subs
             /\ \A n \in At("notify", d) :
                   /\ n > r
                   /\ wlog[n].x = reduce(reducer, StateAfter(r - 1), calls[d].x)
                   /\ wlog[n].x # StateAfter(r - 1)

\* two callers have each registered a subscriber; a dispatch has notified the
\* first, then the second, of the state with its action in
C29_Witness ==
    \E d \in CallsOf("dispatch") :
        /\ At("reply", d) # {}
        /\ Len(NotifiedOf(d)) = 2
        /\ calls[NotifiedOf(d)[1]].t # calls[NotifiedOf(d)[2]].t
        /\ NotifiedOf(d)[1] < NotifiedOf(d)[2]
        /\ \A n \in At("notify", d) : wlog[n].x = <<calls[d].x>>

\* C30: a panic of the reducer is fatal to the worker.  The panic is the last
\* thing the worker does: the task has ended, nothing is restarted, the queue
\* is gone.  For the dispatch that caused it no state was stored and no
\* subscriber notified, and neither that call nor any call behind it, queued
\* then or made later, returns: each fails at the await of its completion.
C30_ReducerPanicFatal ==
    \A i \in DOMAIN wlog : wlog[i].ev = "panic" =>
        LET d == wlog[i].id
        IN /\ i = Len(wlog)
           /\ ended # <<>> /\ ended[1].why = "panicked"
           /\ work = <<>>
           /\ mailbox = <<>>
           /\ state = <<>>
           /\ At("reduce", d) = {} /\ At("notify", d) = {} /\ At("reply", d) = {}
           /\ \A id \in DOMAIN calls : id >= d =>
                 /\ calls[id].ret = <<>>
                 /\ id > d => id \notin Received
                 /\ tasks[calls[id].t].id = id
                 /\ tasks[calls[id].t].ph \in {"wait", "panicked"}
                 /\ id > ended[1].n => tasks[calls[id].t].ph = "panicked"
                 /\ oneshot[calls[id].t] = <<>>

\* a select has returned, another caller's dispatch made the reducer panic while
\* a call of the first caller was queued behind it: both calls have failed
C30_Witness ==
    /\ ended # <<>>
    /\ ended[1].why = "panicked"
    /\ Returned # {}
    /\ \E d \in CallsOf("dispatch") :
          /\ At("panic", d) # {}
          /\ tasks[calls[d].t].ph = "panicked"
          /\ \E id \in DOMAIN calls :
                /\ id > d
                /\ id <= ended[1].n
                /\ calls[id].t # calls[d].t
                /\ tasks[calls[id].t].ph = "panicked"

----------------------------------------------------------------------------
(* Concurrent callers of the plain Store *)

\* C32: no update is lost under concurrency.  When the callers' dispatches have
\* all returned, the worker has reduced each action exactly once, in one order
\* that keeps each caller's awaited order, and the state is the reducer folded
\* over the actions in that order: k Increments from 0 end at k.
C32_NoLostUpdate ==
    LET ds == CallsOf("dispatch")
        total == ActionsUpTo(Len(wlog))
    IN (ds # {} /\ ds \subseteq Returned) =>
          /\ state = <<Fold(reducer, initial, total)>>
          /\ Len(total) = Cardinality(ds)
          /\ \A d \in ds :
                /\ Reduced(d) = 1
                /\ \A i \in At("reduce", d) : wlog[i].a = calls[d].x
          /\ \A d1, d2 \in ds : (calls[d1].t = calls[d2].t /\ d1 \in calls[d2].before) =>
                \A i \in At("reduce", d1) : \A j \in At("reduce", d2) : i < j
          /\ (\A d \in ds : calls[d].x = "Increment") =>
                state = <<initial + Cardinality(ds)>>

\* from 0, two callers have dispatched three Increments, two of them side by
\* side, and all have returned: 3
C32_Witness ==
    /\ initial = 0
    /\ CallsOf("dispatch") = 1..3
    /\ Returned = 1..3
    /\ \A d \in 1..3 : calls[d].x = "Increment"
    /\ \E d1, d2 \in 1..3 :
          /\ d1 < d2
          /\ calls[d1].t # calls[d2].t
          /\ d1 \notin calls[d2].before
    /\ state = <<3>>

\* the actions of all the dispatches called, in the order of the calls
AllDispatched == DispatchedBefore(Len(calls) + 1)

\* C33: every value a select returns is the selector applied to the reducer
\* folded, from the initial state, over a prefix of the dispatched actions in
\* mailbox order: the dispatches enqueued before the Select, each reduced in
\* full when the selector ran, and none of those behind it.
C33_SelectSeesPrefix ==
    \A q \in CallsOf("select") \cap Returned :
        LET seen == DispatchedBefore(q)
        IN /\ IsPrefix(seen, AllDispatched)
           /\ calls[q].ret = <<select(Fold(reducer, initial, seen))>>
           /\ \A i \in At("select", q) :
                 /\ ActionsUpTo(i) = seen
                 /\ wlog[i].x = select(StateAfter(i))

\* a select between two dispatches of another caller, the second enqueued before
\* the select had returned, has returned the state with the first alone
C33_Witness ==
    \E q \in CallsOf("select") \cap Returned :
        \E d1, d2 \in CallsOf("dispatch") :
            /\ d1 < q /\ q < d2
            /\ calls[d1].t # calls[q].t
            /\ q \notin calls[d2].before
            /\ calls[q].ret = <<<<calls[d1].x>>>>

\* the worker is at a Subscribe item
AtSubscribe == work # <<>> /\ work[1].m.kind = "Subscribe"

\* C36: processing a Subscribe changes only the subscriber list, by one entry
\* appended at the end: the state stays, no subscriber is invoked.  The list
\* never shrinks or reorders, and a subscriber is notified only of dispatches the
\* worker reduced after it had processed that subscriber's Subscribe.
C36_SubscribeFrame ==
    /\ [](\A n \in DOMAIN wlog : wlog[n].ev = "notify" =>
             /\ wlog[n].id \in CallsOf("dispatch")
             /\ \E j \in At("subscribe", wlog[n].sub) :
                   \E r \in At("reduce", wlog[n].id) : j < r /\ r < n)
    /\ [](\A s \in CallsOf("subscribe") : At("reply", s) # {} =>
             Cardinality({i \in DOMAIN subscribers : subscribers[i] = calls[s].x}) = 1)
    /\ [][/\ IsPrefix(subscribers, subscribers')
          /\ subscribers' # subscribers =>
                /\ AtSubscribe
                /\ subscribers' = Append(subscribers, work[1].m.arg)
                /\ wlog' = Append(wlog, SubscribeEv(work[1].m.id))]_vars
    /\ [][(AtSubscribe /\ work' # work) =>
             /\ state' = state
             /\ state = <<StateAfter(Len(wlog))>>
             /\ Len(subscribers') <= Len(subscribers) + 1
             /\ \A n \in DOMAIN wlog' : wlog'[n].ev = "notify" => n \in DOMAIN wlog]_vars

\* a dispatch was processed with nobody to notify, then a subscribe, then
\* another dispatch: the subscriber has been notified of the second only
C36_Witness ==
    \E d1, d2 \in CallsOf("dispatch") : \E s \in CallsOf("subscribe") :
        /\ d1 < s /\ s < d2
        /\ At("reply", d1) # {}
        /\ At("notify", d1) = {}
        /\ subscribers = <<calls[s].x>>
        /\ NotesOf(calls[s].x) = <<<<calls[d1].x, calls[d2].x>>>>

\* call id has returned, its item received, executed and answered once
Answered(id) ==
    /\ id \in Returned
    /\ Cardinality(At("recv", id)) = 1
    /\ Cardinality(At("reply", id)) = 1
    /\ Cardinality({i \in DOMAIN wlog :
                       /\ wlog[i].id = id
                       /\ wlog[i].ev \in {"reduce", "select", "subscribe"}}) = 1

\* C34: while the Store is alive and nothing panics, every dispatch, select and
\* subscribe call eventually returns when the worker task and the callers are
\* scheduled fairly: its work item is dequeued, executed and answered, once.
C34_CallsReturn ==
    /\ [](\A id \in DOMAIN calls :
             /\ Cardinality(At("reply", id)) <= 1
             /\ id \in Returned => Answered(id))
    /\ \A id \in 1..MaxLiveCalls : (id \in DOMAIN calls) ~> Answered(id)

\* two callers have made a subscribe, a dispatch and a select, two of them side
\* by side, and all have returned
C34_Witness ==
    /\ Len(calls) = 3
    /\ Returned = 1..3
    /\ CallsOf("dispatch") # {} /\ CallsOf("select") # {} /\ CallsOf("subscribe") # {}
    /\ \E a, b \in 1..3 : a < b /\ calls[a].t # calls[b].t /\ a \notin calls[b].before
    /\ mailbox = <<>>
    /\ work = <<>>

----------------------------------------------------------------------------
(* The layer a thunk dispatches on *)

\* the ThunkMiddleware layer that took the thunk of dispatch d
ThunkLayer(d) == CHOOSE k \in 1..calls[d].top : chain[k] = "thunk"

\* C35: the actions a thunk dispatches enter the chain at the layer directly
\* inside the ThunkMiddleware that spawned it.  Such a dispatch runs no hook of
\* that ThunkMiddleware nor of any layer wrapped outside it, and it runs the
\* hook of every layer wrapped inside it, once, on its way to the worker, which
\* reduces the action once.
C35_ThunkEntersInside ==
    \A d \in ThunkDispatches :
        LET k == ThunkLayer(d)
        IN /\ Count(d, "enter", k) = 1
           /\ \A c \in ThunkCalls(d) :
                 /\ calls[c].top = k - 1
                 /\ calls[c].op = "dispatch"
                 /\ \A i \in DOMAIN calls[c].hooks : calls[c].hooks[i].k < k
                 /\ \A j \in 1..(k - 1) : Count(c, "enter", j) = 1
                 /\ calls[c].x = calls[d].x.a
                 /\ Reduced(c) <= 1
                 /\ \A i \in At("reduce", c) : wlog[i].a = calls[d].x.a
                 /\ c \in Returned =>
                       /\ Reduced(c) = 1
                       /\ \A j \in 1..(k - 1) : Count(c, "exit", j) = 1

\* a thunk was dispatched through a ThunkMiddleware wrapped around a forwarding
\* middleware; its task's dispatch went through the inner layer alone and has
\* returned, the action reduced
C35_Witness ==
    /\ chain = <<"seed", "thunk">>
    /\ \E d \in ThunkDispatches : \E c \in ThunkCalls(d) \cap Returned :
          /\ calls[d].top = 2
          /\ [i \in DOMAIN calls[c].hooks |-> calls[c].hooks[i].k] = <<1, 1>>
          /\ Reduced(c) = 1

----------------------------------------------------------------------------
(* Concurrent dispatches through logging middlewares *)

\* the composed store is a chain of the test's LoggerMiddlewares
AllTestLogs ==
    /\ wrapping = <<>>
    /\ chain # <<>>
    /\ \A k \in DOMAIN chain : chain[k] = "testlog"

\* what the loggers have logged for action a, in order
LogsFor(a) == SelectSeq(logs, LAMBDA e : e[3] = a)

\* C37: for any interleaving of concurrent outer dispatches through a chain of
\* logging middlewares, the store reduces each action exactly once, and the
\* events of one action keep their order: Before from the outermost logger
\* inwards, the reduce, After from the innermost outwards.  Only events of
\* different actions interleave.
C37_ConcurrentChain ==
    AllTestLogs =>
        /\ state = <<StateAfter(Len(wlog))>>
        /\ \A d \in CallerCalls \cap CallsOf("dispatch") :
              LET mine == LogsFor(calls[d].x)
                  full == LogsOf(calls[d].top, calls[d].x)
              IN /\ Len(full) = 2 * Len(chain)
                 /\ IsPrefix(mine, full)
                 /\ Reduced(d) <= 1
                 /\ Reduced(d) = 1 => Len(mine) >= Len(chain)
                 /\ Len(mine) > Len(chain) => Reduced(d) = 1
                 /\ d \in Returned <=> mine = full
                 /\ \A i \in At("reduce", d) : wlog[i].a = calls[d].x

\* through two loggers two callers dispatched side by side: the outer logger
\* logged "Log 1" first, the store reduced "Log 2" first, and both have returned
C37_Witness ==
    /\ chain = <<"testlog", "testlog">>
    /\ wrapping = <<>>
    /\ Len(calls) = 2
    /\ CallsOf("dispatch") = {1, 2}
    /\ Returned = {1, 2}
    /\ calls[1].t # calls[2].t
    /\ calls[1].x = "Log 1"
    /\ calls[2].x = "Log 2"
    /\ Len(logs) = 8
    /\ logs[1] = <<2, "Before", "Log 1">>
    /\ state = <<<<"Log 2", "Log 1">>>>

----------------------------------------------------------------------------
(* The Store of src/src/lib.rs (and src/src/store/store.rs with              *)
(* src/src/store/worker.rs): the worker owns only the receiver, a dispatch   *)
(* is completed through an Arc<Notify> and a select through a one-shot       *)
(* channel.  oneshot[t] holds the completion primitive of task t's call:     *)
(* for a Notify <<>> is "no permit", <<"permit">> a permit stored by          *)
(* notify_one and <<"woken">> a notification handed to the registered waiter. *)

MaxNotifyCalls == 3

NotifyOneEv(id, how) == [ev |-> "notify_one", id |-> id, how |-> how]

\* Store::dispatch_work, let _ = self.sender.send(work): an error, ignored, once
\* the receiver is gone; the work and what it carries are dropped
dispatch_work(w) == IF ended = <<>> THEN Append(mailbox, w) ELSE mailbox

\* a dispatch that returns when the work could not be sent
NotifyDispatchChecksSend(t, p) ==
    /\ CanCall(t, MaxNotifyCalls)
    /\ mailbox' = dispatch_work(Msg("Reduce", t, nextId, p))
    /\ oneshot' = [oneshot EXCEPT ![t] = <<>>]
    /\ tasks' = [tasks EXCEPT ![t] =
                   IF ended = <<>> THEN TaskRec("sent", "dispatch", nextId, 0, 0, p)
                   ELSE IdleTask]
    /\ calls' = Record(<<CallRec(t, "dispatch", 0, p)>>, nextId, <<>>,
                       IF ended = <<>> THEN <<>> ELSE <<"unit">>)
    /\ UNCHANGED <<life, sync, reducer, initial, state, subscribers, chain, wrapping, logs,
                   wlog, inits>>

\* Store::dispatch up to notifier.notified(): Work::reduce(action) makes the
\* Notify, without a permit, and dispatch_work sends its clone with the action
NotifyDispatch(t, p) ==
    /\ CanCall(t, MaxNotifyCalls)
    /\ mailbox' = dispatch_work(Msg("Reduce", t, nextId, p))
    /\ oneshot' = [oneshot EXCEPT ![t] = <<>>]
    /\ tasks' = [tasks EXCEPT ![t] = TaskRec("sent", "dispatch", nextId, 0, 0, p)]
    /\ calls' = Record(<<CallRec(t, "dispatch", 0, p)>>, nextId, <<>>, <<>>)
    /\ UNCHANGED <<life, sync, reducer, initial, state, subscribers, chain, wrapping, logs,
                   wlog, inits>>

\* the dispatch returns to its caller
NotifiedReturns(t) ==
    /\ tasks' = [tasks EXCEPT ![t] = IdleTask]
    /\ oneshot' = [oneshot EXCEPT ![t] = <<>>]
    /\ calls' = Record(<<>>, tasks[t].id, <<>>, <<"unit">>)
    /\ UNCHANGED <<life, sync, reducer, initial, state, subscribers, mailbox, chain,
                   wrapping, logs, wlog, inits>>

\* notifier.notified().await, first poll, the permit is there: it is consumed
\* and the await completes at once
NotifiedTakesPermit(t) ==
    /\ tasks[t].ph = "sent"
    /\ oneshot[t] = <<"permit">>
    /\ NotifiedReturns(t)

\* notifier.notified().await, first poll, no permit: the task registers as the
\* waiter and is suspended
NotifiedWaits(t) ==
    /\ tasks[t].ph = "sent"
    /\ oneshot[t] = <<>>
    /\ tasks' = [tasks EXCEPT ![t].ph = "wait"]
    /\ UNCHANGED <<life, sync, reducer, initial, state, subscribers, mailbox, oneshot,
                   chain, wrapping, logs, calls, wlog, inits>>

\* notifier.notified().await, the waiter was notified: the await completes
NotifiedWoken(t) ==
    /\ tasks[t].ph = "wait"
    /\ tasks[t].op = "dispatch"
    /\ oneshot[t] = <<"woken">>
    /\ NotifiedReturns(t)

\* Store::select up to result_receiver.await: the work carries the one-shot
\* sender; once the receiver of the channel is gone it is dropped with the work,
\* and result_receiver.await.unwrap() panics
NotifySelect(t) ==
    /\ CanCall(t, MaxNotifyCalls)
    /\ Send(t, Msg("Select", t, nextId, "value"),
            TaskRec("wait", "select", nextId, 0, 0, "none"),
            <<CallRec(t, "select", 0, "value")>>, <<>>)

\* result_receiver.await.unwrap() yields the selection
SelectReturns(t) ==
    /\ tasks[t].op = "select"
    /\ Return(t)

\* result_receiver.await.unwrap() of a select whose work was dropped with the
\* worker's receiver
SelectFails(t) ==
    /\ tasks[t].op = "select"
    /\ AwaitFails(t)

\* a notification that reaches only a task already waiting
notify_waiters(m) ==
    [oneshot EXCEPT ![m.t] = IF tasks[m.t].ph = "wait" THEN <<"woken">> ELSE @]

\* Notify::notify_one: the waiter is notified if there is one, else a permit is
\* stored for the next notified().await
notify_one(m) ==
    [oneshot EXCEPT ![m.t] = IF tasks[m.t].ph = "wait" THEN <<"woken">> ELSE <<"permit">>]

\* how notify_one finds the dispatching task
NotifyHow(m) == IF tasks[m.t].ph = "wait" THEN "woken" ELSE "permit"

\* StateWorker::run, Work::Reduce, StateWorker::reduce: state.take().unwrap(), the
\* reducer, state = Some(new_state), notify.notify_one().  A reducer that panics
\* unwinds the worker task: the state taken, the work with its Notify and the
\* receiver with the work queued are dropped.
RunReduce ==
    /\ ended = <<>>
    /\ Len(mailbox) > 0
    /\ Head(mailbox).kind = "Reduce"
    /\ Len(state) = 1
    /\ LET m == Head(mailbox)
           new == reduce(reducer, state[1], m.arg)
       IN IF Panics(reducer, state[1], m.arg)
          THEN /\ state' = <<>>
               /\ wlog' = Append(wlog, PanicEv(m.id, m.arg))
               /\ ended' = <<[why |-> "panicked", n |-> Len(calls), state |-> <<>>,
                              subscribers |-> subscribers]>>
               /\ mailbox' = <<>>
               /\ UNCHANGED oneshot
          ELSE /\ state' = <<new>>
               /\ wlog' = wlog \o <<ReduceEv(m.id, m.arg, new), NotifyOneEv(m.id, NotifyHow(m))>>
               /\ oneshot' = notify_one(m)
               /\ mailbox' = Tail(mailbox)
               /\ UNCHANGED ended
    /\ UNCHANGED <<sync, built, alive, work, reducer, initial, subscribers, tasks, chain,
                   wrapping, logs, calls, inits>>

\* StateWorker::run, Work::Select: select_work.select(self.state.as_ref().unwrap()),
\* which sends the selection on the one-shot channel
RunSelect == WorkSelect

\* the worker task is torn down at recv().await by the runtime shutting down
RunAborted == WorkerEnd("aborted")

InitNotify == InitStore({"log"})
NextNotify ==
    \/ RunReduce
    \/ RunSelect
    \/ RunAborted
    \/ \E t \in MwCallers :
          \/ \E p \in StepActions : NotifyDispatch(t, p)
          \/ NotifiedTakesPermit(t)
          \/ NotifiedWaits(t)
          \/ NotifiedWoken(t)
          \/ NotifySelect(t)
          \/ SelectReturns(t)
          \/ SelectFails(t)
\* the worker task is scheduled while work is queued, and a caller whose
\* notified().await or result_receiver.await is ready is polled again
FairNotify ==
    /\ WF_wlog(RunReduce \/ RunSelect)
    /\ \A t \in MwCallers :
          WF_calls(NotifiedTakesPermit(t) \/ NotifiedWoken(t) \/ SelectReturns(t))
SpecNotify == InitNotify /\ [][NextNotify]_vars /\ FairNotify

\* the dispatch in flight of task t, as the Notify finds it
Released(t) ==
    \/ tasks[t].ph = "sent" /\ oneshot[t] = <<"permit">>
    \/ tasks[t].ph = "wait" /\ oneshot[t] = <<"woken">>

\* C38: in the Notify-based store a dispatch returns only after the worker has
\* reduced its action, and the wake-up is never missed: whichever of notify_one
\* and the caller's notified().await comes first, the caller is released, by
\* the stored permit or as the registered waiter.  A dispatch is not released
\* before its action is reduced, and once reduced it returns; while the worker
\* lives every dispatch returns.
C38_WakeUpNotMissed ==
    /\ [](\A id \in CallsOf("dispatch") :
            /\ id \in Returned => Reduced(id) = 1
            /\ (id \notin Returned /\ Reduced(id) = 0) => oneshot[calls[id].t] = <<>>
            /\ (id \notin Returned /\ Reduced(id) = 1) => Released(calls[id].t))
    /\ \A id \in 1..MaxNotifyCalls :
          /\ (id \in CallsOf("dispatch") /\ Reduced(id) = 1) ~> (id \in Returned)
          /\ (id \in CallsOf("dispatch")) ~> (id \in Returned \/ ended # <<>>)

\* two dispatches have returned, one released by the stored permit and one
\* woken as the registered waiter
C38_Witness ==
    \E i, j \in DOMAIN wlog :
        /\ wlog[i].ev = "notify_one" /\ wlog[i].how = "permit"
        /\ wlog[j].ev = "notify_one" /\ wlog[j].how = "woken"
        /\ {wlog[i].id, wlog[j].id} \subseteq Returned

\* C31: in the Notify-based store a dispatch issued to a worker that has ended
\* never returns: the failed send is ignored, the work with its Notify is
\* dropped, and the caller stays in notified().await with no permit to come.
\* A select issued to the same worker fails hard instead: its one-shot sender
\* is dropped with the work and the caller panics.
C31_DeadWorker ==
    \A id \in LateCalls :
        /\ id \notin Returned
        /\ \A i \in DOMAIN mailbox : mailbox[i].id # id
        /\ \A i \in DOMAIN wlog : wlog[i].id # id
        /\ calls[id].op = "dispatch" =>
              /\ tasks[calls[id].t].ph \in {"sent", "wait"}
              /\ tasks[calls[id].t].id = id
              /\ oneshot[calls[id].t] = <<>>
        /\ calls[id].op = "select" => tasks[calls[id].t].ph = "panicked"

\* after the worker has ended one caller hangs in a dispatch, suspended as the
\* waiter of its Notify, and the other has panicked in a select
C31_Witness ==
    /\ ended # <<>>
    /\ \E d, q \in LateCalls :
          /\ calls[d].op = "dispatch" /\ tasks[calls[d].t].ph = "wait"
          /\ calls[q].op = "select" /\ tasks[calls[q].t].ph = "panicked"

====
